---- MODULE Spec2Model ----
(***************************************************************************)
(* Model of the MCP gateway of agent-battle-command-center                 *)
(* (src/packages/mcp-gateway): the file-lock tools over the cache store    *)
(* and the replication loops between the cache and the durable store.      *)
(*                                                                         *)
(* Every await of the Python code is a suspension point, so each call on   *)
(* the cache store or the durable store is one atomic step of the process  *)
(* that makes it; the stores themselves are the shared state.              *)
(***************************************************************************)
EXTENDS Integers, Sequences, FiniteSets, TLC

(***************************************************************************)
(* Bounds and universes of the model.                                      *)
(***************************************************************************)
Tasks == {"T1", "T2"}                \* task ids that call the tools
Paths == {<<"calc.py">>}             \* file paths that get locked (keys lock:file:<path>)
\* the paths the file tools are called with: a file of the workspace, a path
\* into a sibling directory of the workspace root, a path out of /app
FilePaths == {<<"calc.py">>,
              <<"..", "/", "..", "/", "workspace", "2", "/", "x">>,
              <<"..", "/", "..", "/", "..", "/", "etc", "/", "passwd">>}
AllPaths == Paths \cup FilePaths
Contents == {"x=1", "x=2"}           \* file contents
None == "None"                       \* Python None / absent key

Timeouts == {1, 2}                   \* values of timeout_sec (seconds)
MaxCalls == 5                        \* tool calls started in one behaviour
MaxFileCalls == 4                    \* the same, for the file_write and file_read calls of NextFile
MaxFaultCalls == 3                   \* the same, for the calls of NextWriteFault

TaskIds == {"T1", "T2", "T3"}        \* ids of the rows of table tasks
CachedTasks == {"T1"}                \* the tasks in the cache store when the file tools run
LifeTaskIds == {"T1"}                \* the tasks updated while the lifecycle is explored
FaultStatus == {"completed"}         \* the status written while the stores fail
RaceTaskIds == {"T1", "T2"}          \* the tasks updated while both loops run and the cache store fails
TaskStatus == {"in_progress", "completed"}   \* values of the status enum that get written
BadStatus == "bogus"                 \* a status the tasks table rejects
MaxClock == 4                        \* timestamps handed out by the durable store
MaxWrites == 3                       \* writes enqueued in one behaviour

Agents == {"A1", "A2"}               \* agents that call the collaboration tools
MaxAgentCalls == 3                   \* collaboration-tool calls started in one behaviour
StampTimes == {1, 2}                 \* readings of datetime.utcnow() in log_step
get_logs_limit == 100                \* RedisAdapter.get_logs: limit: int = 100

\* settings.sync_batch_size (config.py: default 100, set from the environment);
\* run at 2 so that a batch overflows with three rows.
sync_batch_size == 2

VARIABLES
    \* ---- cache store (Redis) ----
    lock,        \* lock[p]: value of key lock:file:<p>, or None
    lockTTL,     \* lockTTL[p]: seconds left before the key expires (0: no key, -1: no expiry)
    taskFiles,   \* taskFiles[t]: members of the set task:<t>:files
    lockEvents,  \* lockEvents[p]: messages published on channel locks:<p>
    fileUpdates, \* messages published on channel file:updates
    \* ---- file system ----
    fileContent, \* fileContent[f]: content of the file f (its absolute path), or None
    \* ---- tool calls in flight, one per task id ----
    pc,          \* pc[t]: position of t's call
    arg,         \* arg[t]: arguments of t's call
    res,         \* res[t]: result returned by t's last call (NoRes while one runs)
    ncalls,      \* calls started so far
    \* ---- history of the claims (not program state) ----
    held,        \* held[t][p]: seconds left of t's successful, unreleased claim on p
    lockAge,     \* lockAge[p]: seconds since the lock key on p was set
    lockEx,      \* lockEx[p]: timeout_sec of the claim that set the lock key on p
    lastWrite    \* lastWrite[f]: task, path and content of the last write of the file f

lockVars == <<lock, lockTTL, taskFiles, lockEvents, fileUpdates, fileContent,
              pc, arg, res, ncalls, held, lockAge, lockEx, lastWrite>>

VARIABLES
    \* ---- durable store (PostgreSQL) ----
    dbTasks,     \* dbTasks[id]: committed row of table tasks: [status, updated_at]
    dbClock,     \* last timestamp the store handed out (NOW())
    \* ---- cache store: task state ----
    cacheTasks,  \* cacheTasks[id]: value of key task:<id> (the row as a dict), or NoTask
    \* ---- PostgresAdapter ----
    last_sync_timestamp,   \* watermark of the pull loop
    write_queue,           \* deque of write operations
    \* ---- sync_from_postgres (pull loop) ----
    pullPc,      \* "sleep" | "set_task"
    rows,        \* rows fetched by the iteration in progress
    rowIdx,      \* rows[1..rowIdx] have been written to the cache
    \* ---- sync_to_postgres (push loop) ----
    pushPc,      \* "sleep" | "acquire" | "execute" | "commit"
    batch,       \* write operations taken from the queue by the iteration in progress
    batchIdx,    \* batch[1..batchIdx] have been executed
    txNow,       \* NOW() inside the open transaction (its start time)
    txAborted,   \* the open transaction is in the aborted state
    txWrites,    \* statements the open transaction has executed with success
    \* ---- history of the writes (not program state) ----
    fetchClock,  \* dbClock at the fetch of the last pull iteration
    abandoned,   \* ids of the rows of the iterations that a failure ended and that
                 \* no fetch has returned since
    queued,      \* every write operation ever enqueued, in order (its id is its index)
    executed,    \* ids of the write operations passed to conn.execute, in order
    committed    \* ids of the write operations whose effect the store committed

syncVars == <<dbTasks, dbClock, cacheTasks, last_sync_timestamp, write_queue,
              pullPc, rows, rowIdx, pushPc, batch, batchIdx, txNow, txAborted, txWrites,
              fetchClock, abandoned, queued, executed, committed>>

VARIABLES
    \* ---- cache store: execution logs and collaboration ----
    logs,        \* logs[t]: list at key logs:<t> (JSON strings, head first); <<>>: no key
    logHasTTL,   \* logHasTTL[t]: the key logs:<t> has an expiry
    logStream,   \* logStream[t]: messages published on channel logs:<t>:stream
    collab,      \* collab[t]: members of the set collaboration:<t>
    collabHasTTL,\* collabHasTTL[t]: the key collaboration:<t> has an expiry
    collabEvents,\* collabEvents[t]: messages published on collaboration:<t>:events
    \* ---- calls of the collaboration tools in flight, one per agent ----
    agentPc,     \* agentPc[a]: position of a's call
    agentArg,    \* agentArg[a]: arguments of a's call in flight, or of its last call
    agentRes,    \* agentRes[a]: result returned by a's last call (NoRes while one runs)
    nAgentCalls, \* calls started so far
    \* ---- MCPExecutionLogger of each agent and task (packages/agents) ----
    step_count,  \* step_count[a][t]: self.step_count of the logger of agent a for task t
    \* ---- history of the logs (not program state) ----
    appended,    \* appended[t]: the entries pushed on logs:<t>, in the order of the pushes
    lastAppender,\* lastAppender[t]: the agent whose push on logs:<t> was the last one
    logExpired   \* logExpired[t]: the key logs:<t> has expired at least once

collabVars == <<logs, logHasTTL, logStream, collab, collabHasTTL, collabEvents,
                agentPc, agentArg, agentRes, nAgentCalls, step_count,
                appended, lastAppender, logExpired>>

VARIABLES
    \* ---- MCPGatewayServer / api.py: lifecycle ----
    lifePc,      \* position of initialize() / shutdown()
    redis_adapter,     \* None | "created" | "connected" | "failed" | "closed"
    postgres_adapter,  \* None | "created" | "connected" | "failed" | "closed"
    tools,       \* file_tools / collab_tools: None | "constructed"
    loop,        \* loop[l]: state of the asyncio task of replication loop l
    awaited      \* number of tasks of sync_tasks that shutdown() has awaited to their end

lifeVars == <<lifePc, redis_adapter, postgres_adapter, tools, loop, awaited>>

vars == <<lockVars, syncVars, collabVars, lifeVars>>

NoArg == [path |-> <<>>, timeout |-> 0, content |-> None, via |-> "mcp"]
NoRes == [op |-> None]
NoErr == [kind |-> None, owner |-> None]
NoWrite == [task_id |-> None, path |-> <<>>, content |-> None]

(***************************************************************************)
(* Paths (resources/files.py).  A string is the sequence of its pieces: a  *)
(* piece is "/" or a run of other characters, so that "workspace2" is the  *)
(* two pieces "workspace", "2" and the prefix test of str.startswith is    *)
(* the prefix test on sequences.  A pathlib.Path is its list of segments.  *)
(* The file system has no symbolic link, so Path.resolve() only removes    *)
(* the "." and ".." segments.                                              *)
(***************************************************************************)
FirstSlash(s) ==
    IF \E i \in 1..Len(s) : s[i] = "/"
    THEN CHOOSE i \in 1..Len(s) : s[i] = "/" /\ \A j \in 1..(i - 1) : s[j] # "/"
    ELSE Len(s) + 1

\* the segments of a path string (empty segments are dropped)
RECURSIVE Split(_)
Split(s) ==
    IF s = <<>> THEN <<>>
    ELSE LET i == FirstSlash(s)
             segment == SubSeq(s, 1, i - 1)
         IN  (IF segment = <<>> THEN <<>> ELSE <<segment>>) \o Split(SubSeq(s, i + 1, Len(s)))

\* Path(s)
Path(s) == [parts |-> Split(s)]

\* base / s: an absolute s replaces the base
Join(base, s) ==
    IF s # <<>> /\ s[1] = "/" THEN Path(s) ELSE [parts |-> base.parts \o Split(s)]

RECURSIVE Normal(_, _)
Normal(done, todo) ==
    IF todo = <<>> THEN done
    ELSE LET h == Head(todo)
         IN  Normal(IF h = <<"..">>
                       THEN (IF done = <<>> THEN <<>> ELSE SubSeq(done, 1, Len(done) - 1))
                    ELSE IF h = <<".">> THEN done
                    ELSE Append(done, h),
                    Tail(todo))

\* Path.resolve() of an absolute path
resolve(path) == [parts |-> Normal(<<>>, path.parts)]

RECURSIVE Flat(_)
Flat(parts) == IF parts = <<>> THEN <<>> ELSE <<"/">> \o Head(parts) \o Flat(Tail(parts))

\* str(path) of an absolute path
str(path) == IF path.parts = <<>> THEN <<"/">> ELSE Flat(path.parts)

\* string.startswith(prefix)
startswith(string, prefix) ==
    Len(prefix) <= Len(string) /\ SubSeq(string, 1, Len(prefix)) = prefix

\* self.workspace_root = Path("/app/workspace")
workspace_root == Path(<<"/", "app", "/", "workspace">>)

\* write_file: full_path = self.workspace_root / "tasks" / path
TaskScopedPath(task_id, path) == Join(Join(Join(workspace_root, <<"tasks">>), <<task_id>>), path)
WriteFullPath(task_id, path) == Join(Join(workspace_root, <<"tasks">>), path)

\* read_resource: full_path = self.workspace_root / "tasks" / file_path
ReadFullPath(task_id, file_path) == Join(Join(workspace_root, <<"tasks">>), file_path)

\* "if not str(full_path.resolve()).startswith(str(self.workspace_root.resolve()))"
TraversalDetected(full_path) ==
    ~startswith(str(resolve(full_path)), str(resolve(workspace_root)))

\* the file a full path names
FileAt(full_path) == str(resolve(full_path))

\* every file the calls of the model can name
Locations ==
    {FileAt(ReadFullPath(t, p)) : t \in Tasks, p \in AllPaths}
        \cup {FileAt(TaskScopedPath(t, p)) : t \in Tasks, p \in AllPaths}

(***************************************************************************)
(* Results of the tools, as the dictionaries the code returns.  `locked`   *)
(* is "absent" when the dictionary has no such key.                        *)
(***************************************************************************)
LockedBy(owner) == [kind |-> "File locked by task", owner |-> owner]
CannotRelease(owner) == [kind |-> "Cannot release lock owned by task", owner |-> owner]
LockNotHeld == [kind |-> "Lock not held", owner |-> None]

Result(op, p, success, locked, error) ==
    [op |-> op, path |-> p, success |-> success, locked |-> locked, error |-> error]

\* str(e) of the exception that a failing call of the cache store raises
StoreError == [kind |-> "Exception", owner |-> None]
PathTraversal == [kind |-> "Path traversal attempt detected", owner |-> None]
TaskNotFound == [kind |-> "Task not found", owner |-> None]
FileNotFound == [kind |-> "File not found", owner |-> None]

ReadResult(p, success, content, error) ==
    [op |-> "file_read", path |-> p, success |-> success, content |-> content, error |-> error]

(***************************************************************************)
(* The caller's side of a tool.  The MCP handler (server.py) returns the   *)
(* dictionary of the tool.  The HTTP handler api_claim_file (api.py) does  *)
(*     try: result = await file_tools.claim_file(...)                      *)
(*          if not result.get("success"): raise HTTPException(409, ...)    *)
(*          return result                                                  *)
(*     except Exception as e: raise HTTPException(500, detail=str(e))      *)
(* and HTTPException is an Exception: the 409 is caught and becomes a 500. *)
(* An HTTPException reaches the caller as the response {"detail": ...}.    *)
(***************************************************************************)
HttpError(op, status_code, detail) ==
    [op |-> op, status_code |-> status_code, detail |-> detail]

HTTPException(status_code, detail) ==
    [raised |-> "HTTPException", status_code |-> status_code, detail |-> detail]
AttributeError == [raised |-> "AttributeError", status_code |-> 0, detail |-> NoErr]

ApiClaimFileResponse(result) ==
    IF ~result.success
    THEN HttpError("claim_file", 500, HTTPException(409, result.error))
    ELSE result

Response(via, result) == IF via = "api" THEN ApiClaimFileResponse(result) ELSE result

(***************************************************************************)
(* RedisAdapter.set(key, value, nx=True, ex=timeout_sec): the value the    *)
(* key holds afterwards and whether the command set it.                    *)
(***************************************************************************)
SetPlain(current, value) == [value |-> value, set |-> TRUE]
SetNxOrOwn(current, value) ==
    IF current \in {None, value} THEN [value |-> value, set |-> TRUE]
                                 ELSE [value |-> current, set |-> FALSE]
SetNx(current, value) ==
    IF current = None THEN [value |-> value, set |-> TRUE]
                      ELSE [value |-> current, set |-> FALSE]

NoExpiry(timeout_sec) == -1
LockExpiry(timeout_sec) == timeout_sec

(***************************************************************************)
(* release_file: "if owner != task_id: raise FileLockError(...)".          *)
(***************************************************************************)
RefusesOnlyAbsent(owner, task_id) == owner = None
ReleaseRefused(owner, task_id) == owner # task_id

\* release_file: "await self.redis.delete(lock_key)": the key afterwards
KeyKept(current) == current
KeyDeleted(current) == None

ReleaseError(owner) == IF owner # None THEN CannotRelease(owner) ELSE LockNotHeld

(***************************************************************************)
(* file_write: "if lock_owner and lock_owner != task_id: raise".           *)
(***************************************************************************)
WriteRefused(lock_owner, task_id) == lock_owner # None /\ lock_owner # task_id

(***************************************************************************)
(* Initial state: empty cache store, no file written, no call in flight.   *)
(***************************************************************************)
InitLock ==
    /\ lock = [p \in AllPaths |-> None]
    /\ lockTTL = [p \in AllPaths |-> 0]
    /\ taskFiles = [t \in Tasks |-> {}]
    /\ lockEvents = [p \in AllPaths |-> <<>>]
    /\ fileUpdates = <<>>
    /\ fileContent = [f \in Locations |-> None]
    /\ lastWrite = [f \in Locations |-> NoWrite]
    /\ pc = [t \in Tasks |-> "idle"]
    /\ arg = [t \in Tasks |-> NoArg]
    /\ res = [t \in Tasks |-> NoRes]
    /\ ncalls = 0
    /\ held = [t \in Tasks |-> [p \in AllPaths |-> 0]]
    /\ lockAge = [p \in AllPaths |-> 0]
    /\ lockEx = [p \in AllPaths |-> 0]

Return(t, r) ==
    /\ pc' = [pc EXCEPT ![t] = "idle"]
    /\ arg' = [arg EXCEPT ![t] = NoArg]
    /\ res' = [res EXCEPT ![t] = Response(arg[t].via, r)]

Goto(t, label) ==
    /\ pc' = [pc EXCEPT ![t] = label]
    /\ UNCHANGED <<arg, res>>

(***************************************************************************)
(* A task calls one of the tools.                                          *)
(***************************************************************************)
Call(t, label, a) ==
    /\ pc[t] = "idle"
    /\ ncalls < MaxCalls
    /\ ncalls' = ncalls + 1
    /\ pc' = [pc EXCEPT ![t] = label]
    /\ arg' = [arg EXCEPT ![t] = a]
    /\ res' = [res EXCEPT ![t] = NoRes]
    /\ UNCHANGED <<lock, lockTTL, taskFiles, lockEvents, fileUpdates, fileContent, lastWrite,
                   held, lockAge, lockEx, syncVars, collabVars, lifeVars>>

CallClaimFile(t) ==
    \E p \in Paths, timeout_sec \in Timeouts :
        Call(t, "claim_set", [NoArg EXCEPT !.path = p, !.timeout = timeout_sec])

CallReleaseFile(t) ==
    \E p \in Paths : Call(t, "release_get", [NoArg EXCEPT !.path = p])

CallFileWriteIn(t, paths) ==
    \E p \in paths, c \in Contents :
        Call(t, "write_check", [NoArg EXCEPT !.path = p, !.content = c])

CallFileWrite(t) == CallFileWriteIn(t, Paths)

(***************************************************************************)
(* claim_file                                                              *)
(***************************************************************************)
\* acquired = await self.redis.set(lock_key, task_id, nx=True, ex=timeout_sec)
ClaimFileSet(t) ==
    /\ pc[t] = "claim_set"
    /\ LET p == arg[t].path
           r == SetNx(lock[p], t)
           acquired == r.set
       IN  /\ lock' = [lock EXCEPT ![p] = r.value]
           /\ IF acquired
              THEN /\ lockTTL' = [lockTTL EXCEPT ![p] = LockExpiry(arg[t].timeout)]
                   /\ held' = [held EXCEPT ![t][p] = arg[t].timeout]
                   /\ lockAge' = [lockAge EXCEPT ![p] = 0]
                   /\ lockEx' = [lockEx EXCEPT ![p] = arg[t].timeout]
              ELSE UNCHANGED <<lockTTL, held, lockAge, lockEx>>
           /\ Goto(t, IF acquired THEN "claim_publish" ELSE "claim_get")
    /\ UNCHANGED <<taskFiles, lockEvents, fileUpdates, fileContent, lastWrite, ncalls, syncVars, collabVars, lifeVars>>

\* owner = await self.redis.get(lock_key); raise FileLockError(...)
ClaimFileGetOwner(t) ==
    /\ pc[t] = "claim_get"
    /\ LET p == arg[t].path
           owner == lock[p]
       IN  Return(t, Result("claim_file", p, FALSE, FALSE, LockedBy(owner)))
    /\ UNCHANGED <<lock, lockTTL, taskFiles, lockEvents, fileUpdates, fileContent, lastWrite,
                   ncalls, held, lockAge, lockEx, syncVars, collabVars, lifeVars>>

\* await self.redis.publish(f"locks:{path}", {"locked": True, "by": task_id, ...})
ClaimFilePublish(t) ==
    /\ pc[t] = "claim_publish"
    /\ LET p == arg[t].path
       IN  /\ lockEvents' = [lockEvents EXCEPT
                                ![p] = Append(@, [locked |-> TRUE, by |-> t])]
           /\ Return(t, Result("claim_file", p, TRUE, TRUE, NoErr))
    /\ UNCHANGED <<lock, lockTTL, taskFiles, fileUpdates, fileContent, lastWrite,
                   ncalls, held, lockAge, lockEx, syncVars, collabVars, lifeVars>>

(***************************************************************************)
(* release_file                                                            *)
(***************************************************************************)
\* owner = await self.redis.get(lock_key); if owner != task_id: raise ...
ReleaseFileGet(t) ==
    /\ pc[t] = "release_get"
    /\ LET p == arg[t].path
           owner == lock[p]
       IN  IF ReleaseRefused(owner, t)
           THEN Return(t, Result("release_file", p, FALSE, "absent", ReleaseError(owner)))
           ELSE Goto(t, "release_delete")
    /\ UNCHANGED <<lock, lockTTL, taskFiles, lockEvents, fileUpdates, fileContent, lastWrite,
                   ncalls, held, lockAge, lockEx, syncVars, collabVars, lifeVars>>

\* await self.redis.delete(lock_key)
ReleaseFileDelete(t) ==
    /\ pc[t] = "release_delete"
    /\ LET p == arg[t].path
       IN  /\ lock' = [lock EXCEPT ![p] = KeyDeleted(lock[p])]
           /\ lockTTL' = [lockTTL EXCEPT ![p] = IF lock'[p] = None THEN 0 ELSE @]
           /\ held' = [held EXCEPT ![t][p] = 0]
           /\ lockAge' = [lockAge EXCEPT ![p] = 0]
           /\ lockEx' = [lockEx EXCEPT ![p] = 0]
    /\ Goto(t, "release_publish")
    /\ UNCHANGED <<taskFiles, lockEvents, fileUpdates, fileContent, lastWrite, ncalls, syncVars, collabVars, lifeVars>>

\* await self.redis.publish(f"locks:{path}", {"locked": False, "by": task_id, ...})
ReleaseFilePublish(t) ==
    /\ pc[t] = "release_publish"
    /\ LET p == arg[t].path
       IN  /\ lockEvents' = [lockEvents EXCEPT
                                ![p] = Append(@, [locked |-> FALSE, by |-> t])]
           /\ Return(t, Result("release_file", p, TRUE, FALSE, NoErr))
    /\ UNCHANGED <<lock, lockTTL, taskFiles, fileUpdates, fileContent, lastWrite,
                   ncalls, held, lockAge, lockEx, syncVars, collabVars, lifeVars>>

(***************************************************************************)
(* claim_file / release_file when the publish raises (connection to the    *)
(* cache store lost after the SET or the DELETE): "except Exception as e:  *)
(* return {'success': False, 'error': str(e)}"                             *)
(***************************************************************************)
ClaimFilePublishFails(t) ==
    /\ pc[t] = "claim_publish"
    /\ Return(t, Result("claim_file", arg[t].path, FALSE, "absent", StoreError))
    /\ UNCHANGED <<lock, lockTTL, taskFiles, lockEvents, fileUpdates, fileContent, lastWrite,
                   ncalls, held, lockAge, lockEx, syncVars, collabVars, lifeVars>>

ReleaseFilePublishFails(t) ==
    /\ pc[t] = "release_publish"
    /\ Return(t, Result("release_file", arg[t].path, FALSE, "absent", StoreError))
    /\ UNCHANGED <<lock, lockTTL, taskFiles, lockEvents, fileUpdates, fileContent, lastWrite,
                   ncalls, held, lockAge, lockEx, syncVars, collabVars, lifeVars>>

(***************************************************************************)
(* file_write                                                              *)
(***************************************************************************)
\* lock_owner = await self.redis.get_lock_owner(path); if ...: raise FileLockError
FileWriteCheck(t) ==
    /\ pc[t] = "write_check"
    /\ LET p == arg[t].path
           lock_owner == lock[p]
       IN  IF WriteRefused(lock_owner, t)
           THEN Return(t, Result("file_write", p, FALSE, "absent", LockedBy(lock_owner)))
           ELSE Goto(t, "write_file")
    /\ UNCHANGED <<lock, lockTTL, taskFiles, lockEvents, fileUpdates, fileContent, lastWrite,
                   ncalls, held, lockAge, lockEx, syncVars, collabVars, lifeVars>>

\* FileResourceProvider.write_file: the traversal check (ValueError, which
\* file_write returns as a failure), then f.write(content) and
\* redis.add_task_file(task_id, path)
FileWriteWrite(t) ==
    /\ pc[t] = "write_file"
    /\ LET p == arg[t].path
           full_path == WriteFullPath(t, p)
       IN  IF TraversalDetected(full_path)
           THEN /\ Return(t, Result("file_write", p, FALSE, "absent", PathTraversal))
                /\ UNCHANGED <<fileContent, taskFiles, lastWrite>>
           ELSE /\ fileContent' = [fileContent EXCEPT ![FileAt(full_path)] = arg[t].content]
                /\ lastWrite' = [lastWrite EXCEPT ![FileAt(full_path)] =
                                    [task_id |-> t, path |-> p, content |-> arg[t].content]]
                /\ taskFiles' = [taskFiles EXCEPT ![t] = @ \cup {p}]
                /\ Goto(t, "write_publish")
    /\ UNCHANGED <<lock, lockTTL, lockEvents, fileUpdates, ncalls, held, lockAge, lockEx, syncVars, collabVars, lifeVars>>

\* await self.redis.publish("file:updates", {"task_id", "path", "action": "write"})
FileWritePublish(t) ==
    /\ pc[t] = "write_publish"
    /\ LET p == arg[t].path
       IN  /\ fileUpdates' = Append(fileUpdates, [task_id |-> t, path |-> p])
           /\ Return(t, Result("file_write", p, TRUE, "absent", NoErr))
    /\ UNCHANGED <<lock, lockTTL, taskFiles, lockEvents, fileContent, lastWrite,
                   ncalls, held, lockAge, lockEx, syncVars, collabVars, lifeVars>>

(***************************************************************************)
(* file_write when a call of the cache store raises: "except Exception as  *)
(* e: return {'success': False, 'error': str(e)}"                          *)
(***************************************************************************)
\* get_lock_owner raises
FileWriteGetOwnerFails(t) ==
    /\ pc[t] = "write_check"
    /\ Return(t, Result("file_write", arg[t].path, FALSE, "absent", StoreError))
    /\ UNCHANGED <<lock, lockTTL, taskFiles, lockEvents, fileUpdates, fileContent, lastWrite,
                   ncalls, held, lockAge, lockEx, syncVars, collabVars, lifeVars>>

\* write_file: f.write(content) is done and the file closed, then the SADD of
\* add_task_file raises; write_file raises it again
FileWriteAddTaskFileFails(t) ==
    /\ pc[t] = "write_file"
    /\ LET p == arg[t].path
           full_path == WriteFullPath(t, p)
       IN  /\ ~TraversalDetected(full_path)
           /\ fileContent' = [fileContent EXCEPT ![FileAt(full_path)] = arg[t].content]
           /\ lastWrite' = [lastWrite EXCEPT ![FileAt(full_path)] =
                               [task_id |-> t, path |-> p, content |-> arg[t].content]]
           /\ Return(t, Result("file_write", p, FALSE, "absent", StoreError))
    /\ UNCHANGED <<lock, lockTTL, taskFiles, lockEvents, fileUpdates,
                   ncalls, held, lockAge, lockEx, syncVars, collabVars, lifeVars>>

\* the publish on file:updates raises
FileWritePublishFails(t) ==
    /\ pc[t] = "write_publish"
    /\ Return(t, Result("file_write", arg[t].path, FALSE, "absent", StoreError))
    /\ UNCHANGED <<lock, lockTTL, taskFiles, lockEvents, fileUpdates, fileContent, lastWrite,
                   ncalls, held, lockAge, lockEx, syncVars, collabVars, lifeVars>>

(***************************************************************************)
(* One second passes in the cache store: every key with an expiry loses a  *)
(* second and a key whose time is up is removed by the store itself.       *)
(***************************************************************************)
Expire ==
    /\ \E p \in AllPaths : lock[p] # None
    /\ lockTTL' = [p \in AllPaths |-> IF lockTTL[p] > 0 THEN lockTTL[p] - 1 ELSE lockTTL[p]]
    /\ lock' = [p \in AllPaths |-> IF lockTTL[p] = 1 THEN None ELSE lock[p]]
    /\ lockAge' = [p \in AllPaths |->
                     IF lock[p] = None \/ lockTTL[p] = 1 THEN 0
                     ELSE lockAge[p] + 1]
    /\ lockEx' = [p \in AllPaths |-> IF lockTTL[p] = 1 THEN 0 ELSE lockEx[p]]
    /\ held' = [t \in Tasks |-> [p \in AllPaths |->
                     IF held[t][p] > 0 THEN held[t][p] - 1 ELSE 0]]
    /\ UNCHANGED <<taskFiles, lockEvents, fileUpdates, fileContent, lastWrite, pc, arg, res, ncalls, syncVars, collabVars, lifeVars>>


(***************************************************************************)
(* Durable store and PostgresAdapter.                                      *)
(***************************************************************************)
\* no key task:<id> in the cache store
NoTask == [id |-> None, status |-> None, updated_at |-> <<>>]

\* The state of both stores and of the adapter when the rows of the tasks in
\* `cached` were updated at instant 1 and the pull loop has copied them to the
\* cache; with no such task, the state after connect().
InitSyncWith(cached) ==
    /\ dbTasks = [id \in TaskIds |->
                     IF id \in cached THEN [status |-> "in_progress", updated_at |-> 1]
                                      ELSE [status |-> "pending", updated_at |-> 0]]
    /\ dbClock = IF cached = {} THEN 0 ELSE 1
    /\ cacheTasks = [id \in TaskIds |->
                     IF id \in cached
                     THEN [id |-> id, status |-> "in_progress", updated_at |-> <<"iso", 1>>]
                     ELSE NoTask]
    /\ last_sync_timestamp = dbClock   \* connect(): datetime.utcnow(); then the newest row seen
    /\ write_queue = <<>>
    /\ pullPc = "sleep"
    /\ rows = <<>>
    /\ rowIdx = 0
    /\ pushPc = "sleep"
    /\ batch = <<>>
    /\ batchIdx = 0
    /\ txNow = 0
    /\ txAborted = FALSE
    /\ txWrites = <<>>
    /\ fetchClock = 0
    /\ abandoned = {}
    /\ queued = <<>>
    /\ executed = <<>>
    /\ committed = {}

InitSync == InitSyncWith({})

Min(a, b) == IF a < b THEN a ELSE b

\* datetime.isoformat(): the timestamp as an ISO-8601 string
isoformat(ts) == <<"iso", ts>>

(***************************************************************************)
(* SELECT ... FROM tasks WHERE updated_at > $1 ORDER BY updated_at DESC    *)
(* LIMIT $2: every result the store may return (rows of equal updated_at   *)
(* come in any order).                                                     *)
(***************************************************************************)
ChangedSince(ts) == {id \in TaskIds : dbTasks[id].updated_at > ts}

OrderedDesc(S) ==
    {s \in [1..Cardinality(S) -> S] :
        /\ \A i, j \in 1..Cardinality(S) : i # j => s[i] # s[j]
        /\ \A i, j \in 1..Cardinality(S) :
              i < j => dbTasks[s[i]].updated_at >= dbTasks[s[j]].updated_at}

Fetch(ts, limit) ==
    {SubSeq(s, 1, Min(limit, Len(s))) : s \in OrderedDesc(ChangedSince(ts))}

Row(id) == [id |-> id, status |-> dbTasks[id].status, updated_at |-> dbTasks[id].updated_at]

\* task_data = dict(row) with created_at / updated_at turned into ISO strings
TaskData(row) == [row EXCEPT !.updated_at = isoformat(row.updated_at)]

(***************************************************************************)
(* A task row is updated directly in the durable store (by another         *)
(* service): the store stamps it with a new timestamp.                     *)
(***************************************************************************)
DirectUpdate(id, status) ==
    /\ dbClock < MaxClock
    /\ dbClock' = dbClock + 1
    /\ dbTasks' = [dbTasks EXCEPT ![id] = [status |-> status, updated_at |-> dbClock + 1]]
    /\ UNCHANGED <<cacheTasks, last_sync_timestamp, write_queue, pullPc, rows, rowIdx,
                   pushPc, batch, batchIdx, txNow, txAborted, txWrites, fetchClock, abandoned, queued, executed, committed,
                   lockVars, collabVars, lifeVars>>

(***************************************************************************)
(* sync_from_postgres: one iteration is the fetch, then one set_task per   *)
(* row, then the assignment of the watermark.                              *)
(***************************************************************************)
\* rows = await conn.fetch(query, self.last_sync_timestamp, settings.sync_batch_size)
SyncFromFetch ==
    /\ pullPc = "sleep"
    /\ \E s \in Fetch(last_sync_timestamp, sync_batch_size) :
          /\ rows' = [i \in 1..Len(s) |-> Row(s[i])]
          /\ pullPc' = IF Len(s) > 0 THEN "set_task" ELSE "sleep"
          /\ abandoned' = abandoned \ {s[i] : i \in 1..Len(s)}
    /\ rowIdx' = 0
    /\ fetchClock' = dbClock
    /\ UNCHANGED <<dbTasks, dbClock, cacheTasks, last_sync_timestamp, write_queue,
                   pushPc, batch, batchIdx, txNow, txAborted, txWrites, queued, executed, committed,
                   lockVars, collabVars, lifeVars>>

\* the watermark after the last row of the iteration was written
OldestSeen(fetched) == fetched[Len(fetched)].updated_at
NewestSeen(fetched) == fetched[1].updated_at

\* await self.redis.set_task(task_data["id"], task_data); after the last row:
\* self.last_sync_timestamp = rows[0]["updated_at"]
SyncFromSetTask ==
    /\ pullPc = "set_task"
    /\ LET row == rows[rowIdx + 1]
       IN  cacheTasks' = [cacheTasks EXCEPT ![row.id] = TaskData(row)]
    /\ IF rowIdx + 1 = Len(rows)
       THEN /\ last_sync_timestamp' = NewestSeen(rows)
            /\ pullPc' = "sleep"
            /\ rows' = <<>>
            /\ rowIdx' = 0
       ELSE /\ rowIdx' = rowIdx + 1
            /\ UNCHANGED <<last_sync_timestamp, pullPc, rows>>
    /\ UNCHANGED <<dbTasks, dbClock, write_queue,
                   pushPc, batch, batchIdx, txNow, txAborted, txWrites, fetchClock, abandoned, queued, executed, committed,
                   lockVars, collabVars, lifeVars>>

(***************************************************************************)
(* queue_write / update_task_status                                        *)
(***************************************************************************)
WriteOp(id, task_id, status) ==
    [id |-> id, sql |-> "UPDATE tasks SET status, updated_at = NOW()",
     task_id |-> task_id, status |-> status]

\* self.write_queue.append({"sql": sql, "params": params})
queue_write(op) ==
    /\ write_queue' = Append(write_queue, op)
    /\ queued' = Append(queued, op)

UpdateTaskStatus(task_id, status) ==
    /\ Len(queued) < MaxWrites
    /\ queue_write(WriteOp(Len(queued) + 1, task_id, status))
    /\ UNCHANGED <<dbTasks, dbClock, cacheTasks, last_sync_timestamp,
                   pullPc, rows, rowIdx, pushPc, batch, batchIdx, txNow, txAborted,
                   txWrites, fetchClock, abandoned, executed, committed, lockVars, collabVars, lifeVars>>

(***************************************************************************)
(* sync_to_postgres                                                        *)
(***************************************************************************)
\* while self.write_queue and len(batch) < settings.sync_batch_size:
\*     batch.append(self.write_queue.popleft())
Unpopped(queue, size) == queue
PoppedRight(queue, size) == [i \in 1..Min(size, Len(queue)) |-> queue[Len(queue) + 1 - i]]
Drained(queue, size) == SubSeq(queue, 1, Min(size, Len(queue)))
Remaining(queue, size) == SubSeq(queue, Min(size, Len(queue)) + 1, Len(queue))

SyncToDrain ==
    /\ pushPc = "sleep"
    /\ write_queue # <<>>
    /\ batch' = Drained(write_queue, sync_batch_size)
    /\ write_queue' = Remaining(write_queue, sync_batch_size)
    /\ batchIdx' = 0
    /\ pushPc' = "acquire"
    /\ UNCHANGED <<dbTasks, dbClock, cacheTasks, last_sync_timestamp,
                   pullPc, rows, rowIdx, txNow, txAborted, txWrites, fetchClock, abandoned, queued, executed, committed,
                   lockVars, collabVars, lifeVars>>

\* async with self.pool.acquire() as conn: async with conn.transaction():
SyncToBegin ==
    /\ pushPc = "acquire"
    /\ dbClock < MaxClock
    /\ dbClock' = dbClock + 1
    /\ txNow' = dbClock + 1
    /\ txAborted' = FALSE
    /\ txWrites' = <<>>
    /\ pushPc' = "execute"
    /\ UNCHANGED <<dbTasks, cacheTasks, last_sync_timestamp, write_queue,
                   pullPc, rows, rowIdx, batch, batchIdx, fetchClock, abandoned, queued, executed, committed, lockVars, collabVars, lifeVars>>

\* the store rejects the statement (here: a status outside the enum)
Rejected(write_op) == write_op.status \notin TaskStatus \cup {"pending"}

\* try: await conn.execute(write_op["sql"], *write_op["params"])
\* except Exception as e: logger.error(...)
\* A statement that fails puts the transaction in the aborted state, in which
\* the store refuses every later statement.
SyncToExecute ==
    /\ pushPc = "execute"
    /\ LET write_op == batch[batchIdx + 1]
       IN  IF txAborted \/ Rejected(write_op)
           THEN /\ txAborted' = TRUE
                /\ UNCHANGED txWrites
           ELSE /\ txWrites' = Append(txWrites, write_op)
                /\ UNCHANGED txAborted
    /\ executed' = Append(executed, batch[batchIdx + 1].id)
    /\ batchIdx' = batchIdx + 1
    /\ pushPc' = IF batchIdx + 1 = Len(batch) THEN "commit" ELSE "execute"
    /\ UNCHANGED <<dbTasks, dbClock, cacheTasks, last_sync_timestamp, write_queue,
                   pullPc, rows, rowIdx, batch, txNow, fetchClock, abandoned, queued, committed, lockVars, collabVars, lifeVars>>

RECURSIVE Apply(_, _, _)
Apply(db, writes, now) ==
    IF writes = <<>> THEN db
    ELSE Apply([db EXCEPT ![Head(writes).task_id] =
                    [status |-> Head(writes).status, updated_at |-> now]],
               Tail(writes), now)

\* the end of "async with conn.transaction()": COMMIT, which rolls an aborted
\* transaction back
Committed(aborted, writes) == IF aborted THEN <<>> ELSE writes

SyncToCommit ==
    /\ pushPc = "commit"
    /\ LET writes == Committed(txAborted, txWrites)
       IN  /\ dbTasks' = Apply(dbTasks, writes, txNow)
           /\ committed' = committed \cup {writes[i].id : i \in 1..Len(writes)}
    /\ pushPc' = "sleep"
    /\ batch' = <<>>
    /\ batchIdx' = 0
    /\ txAborted' = FALSE
    /\ txWrites' = <<>>
    /\ txNow' = 0
    /\ UNCHANGED <<dbClock, cacheTasks, last_sync_timestamp, write_queue,
                   pullPc, rows, rowIdx, fetchClock, abandoned, queued, executed, lockVars, collabVars, lifeVars>>

\* pool.acquire() raises (the store is unreachable): "except Exception" of the
\* loop logs, sleeps 5 s and starts the next iteration
SyncToAcquireFails ==
    /\ pushPc = "acquire"
    /\ pushPc' = "sleep"
    /\ batch' = <<>>
    /\ batchIdx' = 0
    /\ UNCHANGED <<dbTasks, dbClock, cacheTasks, last_sync_timestamp, write_queue,
                   pullPc, rows, rowIdx, txNow, txAborted, txWrites, fetchClock, abandoned, queued, executed, committed,
                   lockVars, collabVars, lifeVars>>

(***************************************************************************)
(* file_read                                                               *)
(***************************************************************************)
CallFileRead(t) ==
    \E p \in FilePaths : Call(t, "read_get_task", [NoArg EXCEPT !.path = p])

\* uri = f"workspace://{task_id}/{path}"
Uri(task_id, path) == <<"workspace://", task_id, "/">> \o path

\* parts = uri[12:].split("/", 1); task_id = parts[0]; file_path = parts[1]
ParseUri(uri) ==
    LET rest == Tail(uri)
        i == FirstSlash(rest)
    IN  [task_id |-> SubSeq(rest, 1, i - 1), file_path |-> SubSeq(rest, i + 1, Len(rest))]

\* RedisAdapter.get_task(task_id): the cached task, NoTask when there is no key
get_task(task_id) ==
    IF Len(task_id) = 1 /\ task_id[1] \in TaskIds THEN cacheTasks[task_id[1]] ELSE NoTask

\* read_resource after the task was found: the traversal check, the check that
\* the file exists, the read
ReadFile(p, file_path) ==
    LET full_path == ReadFullPath(None, file_path)
    IN  IF TraversalDetected(full_path) THEN ReadResult(p, FALSE, None, PathTraversal)
        ELSE IF fileContent[FileAt(full_path)] = None
             THEN ReadResult(p, FALSE, None, FileNotFound)
             ELSE ReadResult(p, TRUE, fileContent[FileAt(full_path)], NoErr)

\* task_data = await self.redis.get_task(task_id); if not task_data: raise ValueError
FileReadGetTask(t) ==
    /\ pc[t] = "read_get_task"
    /\ LET p == arg[t].path
           task_data == get_task(ParseUri(Uri(t, p)).task_id)
       IN  IF task_data = NoTask
           THEN Return(t, ReadResult(p, FALSE, None, TaskNotFound))
           ELSE Goto(t, "read_file")
    /\ UNCHANGED <<lock, lockTTL, taskFiles, lockEvents, fileUpdates, fileContent, lastWrite,
                   ncalls, held, lockAge, lockEx, syncVars, collabVars, lifeVars>>

\* the rest of read_resource and the return of file_read
FileReadRead(t) ==
    /\ pc[t] = "read_file"
    /\ LET p == arg[t].path
       IN  Return(t, ReadFile(p, ParseUri(Uri(t, p)).file_path))
    /\ UNCHANGED <<lock, lockTTL, taskFiles, lockEvents, fileUpdates, fileContent, lastWrite,
                   ncalls, held, lockAge, lockEx, syncVars, collabVars, lifeVars>>

(***************************************************************************)
(* Collaboration tools (tools/collaboration.py) and the log provider       *)
(* (resources/logs.py): execution logs and collaboration sets in the cache *)
(* store.                                                                  *)
(***************************************************************************)
NoTimestamp == <<>>                  \* the step has no key "timestamp"
NoStep == [step |-> 0, action |-> None, agent_id |-> None, timestamp |-> NoTimestamp,
           task_id |-> None]
NoAgentArg == [task_id |-> None, step |-> NoStep, agent_id |-> None]

\* the step dictionaries agent a passes to log_step: without the keys
\* "timestamp" and "task_id" (None: no such key), and with both; `step` is the
\* number that the agent's logger gives the entry
Steps(a, step) ==
    {[step |-> step, action |-> "run", agent_id |-> a, timestamp |-> NoTimestamp,
      task_id |-> None],
     [step |-> step, action |-> "run", agent_id |-> a, timestamp |-> isoformat(0),
      task_id |-> "T0"]}

InitCollab ==
    /\ logs = [t \in Tasks |-> <<>>]
    /\ logHasTTL = [t \in Tasks |-> FALSE]
    /\ logStream = [t \in Tasks |-> <<>>]
    /\ collab = [t \in Tasks |-> {}]
    /\ collabHasTTL = [t \in Tasks |-> FALSE]
    /\ collabEvents = [t \in Tasks |-> <<>>]
    /\ agentPc = [a \in Agents |-> "idle"]
    /\ agentArg = [a \in Agents |-> NoAgentArg]
    /\ agentRes = [a \in Agents |-> NoRes]
    /\ nAgentCalls = 0
    /\ step_count = [a \in Agents |-> [t \in Tasks |-> 0]]
    /\ appended = [t \in Tasks |-> <<>>]
    /\ lastAppender = [t \in Tasks |-> None]
    /\ logExpired = [t \in Tasks |-> FALSE]

\* json.dumps / json.loads
json_dumps(value) == <<"json", value>>
json_loads(string) == string[2]

\* LPUSH key value / RPUSH key value: the list afterwards
RPush(list, value) == Append(list, value)
LPush(list, value) == <<value>> \o list

\* SADD key member / SREM key member: the set afterwards
SAdd(set, member) == set \cup {member}
SRemNothing(set, member) == set
SRem(set, member) == set \ {member}

\* log_step: "if 'timestamp' not in step: ...; if 'task_id' not in step: ..."
Unstamped(step, task_id, now) == step
Stamp(step, task_id, now) ==
    [step EXCEPT !.timestamp = IF @ = NoTimestamp THEN isoformat(now) ELSE @,
                 !.task_id = IF @ = None THEN task_id ELSE @]

\* RedisAdapter.get_logs: LRANGE key 0 limit-1, each element through json.loads
get_logs(task_id, limit) ==
    [i \in 1..Min(limit, Len(logs[task_id])) |-> json_loads(logs[task_id][i])]

LogStepOk(task_id, step) ==
    [op |-> "log_step", success |-> TRUE, task_id |-> task_id, step |-> step]
CollabOk(op, task_id, agent_id) ==
    [op |-> op, success |-> TRUE, task_id |-> task_id, agent_id |-> agent_id]

AgentReturn(a, r) ==
    /\ agentPc' = [agentPc EXCEPT ![a] = "idle"]
    /\ agentRes' = [agentRes EXCEPT ![a] = r]

AgentGoto(a, label) ==
    /\ agentPc' = [agentPc EXCEPT ![a] = label]
    /\ UNCHANGED agentRes

\* an agent calls one of the collaboration tools
AgentCall(a, label, args) ==
    /\ agentPc[a] = "idle"
    /\ nAgentCalls < MaxAgentCalls
    /\ nAgentCalls' = nAgentCalls + 1
    /\ agentPc' = [agentPc EXCEPT ![a] = label]
    /\ agentArg' = [agentArg EXCEPT ![a] = args]
    /\ agentRes' = [agentRes EXCEPT ![a] = NoRes]
    /\ UNCHANGED <<logs, logHasTTL, logStream, collab, collabHasTTL, collabEvents,
                   appended, lastAppender, logExpired, lockVars, syncVars, lifeVars>>

\* MCPExecutionLogger.log_step_async: "self.step_count += 1; step =
\* self.step_count", then the call of log_step
CallLogStep(a) ==
    \E t \in Tasks :
        /\ step_count' = [step_count EXCEPT ![a][t] = @ + 1]
        /\ \E step \in Steps(a, step_count'[a][t]) :
              AgentCall(a, "log_lpush", [NoAgentArg EXCEPT !.task_id = t, !.step = step])

\* log_step stamps the step (in place), append_log pushes it:
\* await self.redis.lpush(log_key, json.dumps(step))
LogStepLpush(a) ==
    /\ agentPc[a] = "log_lpush"
    /\ \E now \in StampTimes :
         LET t == agentArg[a].task_id
             step == Stamp(agentArg[a].step, t, now)
         IN  /\ agentArg' = [agentArg EXCEPT ![a].step = step]
             /\ logs' = [logs EXCEPT ![t] = LPush(@, json_dumps(step))]
             /\ appended' = [appended EXCEPT ![t] = Append(@, step)]
             /\ lastAppender' = [lastAppender EXCEPT ![t] = a]
    /\ AgentGoto(a, "log_expire")
    /\ UNCHANGED <<logHasTTL, logStream, collab, collabHasTTL, collabEvents,
                   nAgentCalls, step_count, logExpired, lockVars, syncVars, lifeVars>>

\* await self.redis.expire(log_key, 3600): no effect when the key is gone
LogStepExpire(a) ==
    /\ agentPc[a] = "log_expire"
    /\ LET t == agentArg[a].task_id
       IN  logHasTTL' = [logHasTTL EXCEPT ![t] = logs[t] # <<>>]
    /\ AgentGoto(a, "log_publish")
    /\ UNCHANGED <<logs, logStream, collab, collabHasTTL, collabEvents, agentArg,
                   nAgentCalls, step_count, appended, lastAppender, logExpired,
                   lockVars, syncVars, lifeVars>>

\* await self.redis.publish(channel, json.dumps(step)); both functions return
LogStepPublish(a) ==
    /\ agentPc[a] = "log_publish"
    /\ LET t == agentArg[a].task_id
           step == agentArg[a].step
       IN  /\ logStream' = [logStream EXCEPT ![t] = Append(@, json_dumps(step))]
           /\ AgentReturn(a, LogStepOk(t, step))
    /\ UNCHANGED <<logs, logHasTTL, collab, collabHasTTL, collabEvents, agentArg,
                   nAgentCalls, step_count, appended, lastAppender, logExpired,
                   lockVars, syncVars, lifeVars>>

\* log_step: "except Exception as e: return {'success': False, 'error': str(e)}"
LogStepFailed(error) == [op |-> "log_step", success |-> FALSE, error |-> error]

\* the list logs:<t> after publish raised: append_log has no handler and
\* log_step's handler only returns the failure, so nothing removes the entry
RolledBack(list) == IF list = <<>> THEN list ELSE Tail(list)
LeftAppended(list) == list

\* await self.redis.publish(channel, json.dumps(step)) raises
LogStepPublishFails(a) ==
    /\ agentPc[a] = "log_publish"
    /\ LET t == agentArg[a].task_id
       IN  logs' = [logs EXCEPT ![t] = LeftAppended(@)]
    /\ AgentReturn(a, LogStepFailed(StoreError))
    /\ UNCHANGED <<logHasTTL, logStream, collab, collabHasTTL, collabEvents, agentArg,
                   nAgentCalls, step_count, appended, lastAppender, logExpired,
                   lockVars, syncVars, lifeVars>>

\* an agent reads the log of a task: LogResourceProvider.read_resource("logs://<t>")
CallReadLogs(a) ==
    /\ \E t \in Tasks : AgentCall(a, "logs_lrange", [NoAgentArg EXCEPT !.task_id = t])
    /\ UNCHANGED step_count

\* logs = await self.redis.get_logs(task_id); return json.dumps({"task_id", "logs"})
ReadLogsReturn(a) ==
    /\ agentPc[a] = "logs_lrange"
    /\ LET t == agentArg[a].task_id
       IN  AgentReturn(a, [op |-> "logs", task_id |-> t, logs |-> get_logs(t, get_logs_limit)])
    /\ UNCHANGED <<logs, logHasTTL, logStream, collab, collabHasTTL, collabEvents, agentArg,
                   nAgentCalls, step_count, appended, lastAppender, logExpired,
                   lockVars, syncVars, lifeVars>>

\* the hour of the key logs:<t> is over: the store removes the list
LogKeyExpires(t) ==
    /\ logs[t] # <<>>
    /\ logHasTTL[t]
    /\ logs' = [logs EXCEPT ![t] = <<>>]
    /\ logHasTTL' = [logHasTTL EXCEPT ![t] = FALSE]
    /\ lastAppender' = [lastAppender EXCEPT ![t] = None]
    /\ logExpired' = [logExpired EXCEPT ![t] = TRUE]
    /\ UNCHANGED <<logStream, collab, collabHasTTL, collabEvents, agentPc, agentArg,
                   agentRes, nAgentCalls, step_count, appended, lockVars, syncVars, lifeVars>>

(***************************************************************************)
(* join_collaboration / leave_collaboration                                *)
(***************************************************************************)
CallJoinCollaboration(a) ==
    /\ \E t \in Tasks, agent_id \in Agents :
          AgentCall(a, "join_sadd", [NoAgentArg EXCEPT !.task_id = t, !.agent_id = agent_id])
    /\ UNCHANGED step_count

CallLeaveCollaboration(a) ==
    /\ \E t \in Tasks, agent_id \in Agents :
          AgentCall(a, "leave_srem", [NoAgentArg EXCEPT !.task_id = t, !.agent_id = agent_id])
    /\ UNCHANGED step_count

\* await self.redis.sadd(collab_key, agent_id)
JoinSadd(a) ==
    /\ agentPc[a] = "join_sadd"
    /\ LET t == agentArg[a].task_id
       IN  collab' = [collab EXCEPT ![t] = SAdd(@, agentArg[a].agent_id)]
    /\ AgentGoto(a, "join_expire")
    /\ UNCHANGED <<logs, logHasTTL, logStream, collabHasTTL, collabEvents, agentArg,
                   nAgentCalls, step_count, appended, lastAppender, logExpired,
                   lockVars, syncVars, lifeVars>>

\* await self.redis.expire(collab_key, 3600)
JoinExpire(a) ==
    /\ agentPc[a] = "join_expire"
    /\ LET t == agentArg[a].task_id
       IN  collabHasTTL' = [collabHasTTL EXCEPT ![t] = collab[t] # {}]
    /\ AgentGoto(a, "join_publish")
    /\ UNCHANGED <<logs, logHasTTL, logStream, collab, collabEvents, agentArg,
                   nAgentCalls, step_count, appended, lastAppender, logExpired,
                   lockVars, syncVars, lifeVars>>

\* await self.redis.publish(f"collaboration:{task_id}:events", {"event": "agent_joined", ...})
JoinPublish(a) ==
    /\ agentPc[a] = "join_publish"
    /\ LET t == agentArg[a].task_id
           agent_id == agentArg[a].agent_id
       IN  /\ collabEvents' = [collabEvents EXCEPT
                 ![t] = Append(@, [event |-> "agent_joined", agent_id |-> agent_id])]
           /\ AgentReturn(a, CollabOk("join_collaboration", t, agent_id))
    /\ UNCHANGED <<logs, logHasTTL, logStream, collab, collabHasTTL, agentArg,
                   nAgentCalls, step_count, appended, lastAppender, logExpired,
                   lockVars, syncVars, lifeVars>>

\* await self.redis.srem(collab_key, agent_id): a set left empty is no key any more
LeaveSrem(a) ==
    /\ agentPc[a] = "leave_srem"
    /\ LET t == agentArg[a].task_id
       IN  /\ collab' = [collab EXCEPT ![t] = SRem(@, agentArg[a].agent_id)]
           /\ collabHasTTL' = [collabHasTTL EXCEPT ![t] = @ /\ collab'[t] # {}]
    /\ AgentGoto(a, "leave_publish")
    /\ UNCHANGED <<logs, logHasTTL, logStream, collabEvents, agentArg,
                   nAgentCalls, step_count, appended, lastAppender, logExpired,
                   lockVars, syncVars, lifeVars>>

\* await self.redis.publish(f"collaboration:{task_id}:events", {"event": "agent_left", ...})
LeavePublish(a) ==
    /\ agentPc[a] = "leave_publish"
    /\ LET t == agentArg[a].task_id
           agent_id == agentArg[a].agent_id
       IN  /\ collabEvents' = [collabEvents EXCEPT
                 ![t] = Append(@, [event |-> "agent_left", agent_id |-> agent_id])]
           /\ AgentReturn(a, CollabOk("leave_collaboration", t, agent_id))
    /\ UNCHANGED <<logs, logHasTTL, logStream, collab, collabHasTTL, agentArg,
                   nAgentCalls, step_count, appended, lastAppender, logExpired,
                   lockVars, syncVars, lifeVars>>

\* the hour of the key collaboration:<t> is over: the store removes the set
CollabKeyExpires(t) ==
    /\ collab[t] # {}
    /\ collabHasTTL[t]
    /\ collab' = [collab EXCEPT ![t] = {}]
    /\ collabHasTTL' = [collabHasTTL EXCEPT ![t] = FALSE]
    /\ UNCHANGED <<logs, logHasTTL, logStream, collabEvents, agentPc, agentArg,
                   agentRes, nAgentCalls, step_count, appended, lastAppender, logExpired,
                   lockVars, syncVars, lifeVars>>

(***************************************************************************)
(* Lifecycle of the gateway: initialize() / shutdown() of MCPGatewayServer *)
(* (server.py), startup() / shutdown() of the HTTP API (api.py).           *)
(***************************************************************************)
\* self.sync_tasks, in the order _start_sync_tasks appends them
sync_tasks == <<"pull", "push">>
Loops == {sync_tasks[i] : i \in 1..Len(sync_tasks)}

\* the gateway as constructed: MCPGatewayServer.__init__ / the globals of api.py
InitLife ==
    /\ lifePc = "uninitialized"
    /\ redis_adapter = None
    /\ postgres_adapter = None
    /\ tools = None
    /\ loop = [l \in Loops |-> "not_started"]
    /\ awaited = 0

\* the gateway when initialize() has returned
LifeRunning ==
    /\ lifePc = "running"
    /\ redis_adapter = "connected"
    /\ postgres_adapter = "connected"
    /\ tools = "constructed"
    /\ loop = [l \in Loops |-> "running"]
    /\ awaited = 0

\* the lifecycle state of spec 4.6 that a position of the code stands for
GatewayState ==
    CASE lifePc = "uninitialized" -> "uninitialized"
      [] lifePc \in {"connect_redis", "connect_postgres"} -> "initializing"
      [] lifePc = "running" -> "running"
      [] lifePc \in {"await_task", "close_postgres", "close_redis"} -> "shutting_down"
      [] lifePc = "stopped" -> "stopped"

\* self.redis_adapter = RedisAdapter(); await self.redis_adapter.connect() begins
InitializeBegin ==
    /\ lifePc = "uninitialized"
    /\ redis_adapter' = "created"
    /\ lifePc' = "connect_redis"
    /\ UNCHANGED <<postgres_adapter, tools, loop, awaited, lockVars, syncVars, collabVars>>

\* redis connect() returns; self.postgres_adapter = PostgresAdapter(...); its
\* connect() begins
ConnectRedis ==
    /\ lifePc = "connect_redis"
    /\ redis_adapter' = "connected"
    /\ postgres_adapter' = "created"
    /\ lifePc' = "connect_postgres"
    /\ UNCHANGED <<tools, loop, awaited, lockVars, syncVars, collabVars>>

\* postgres connect() returns; the providers and tools are constructed and
\* registered and both replication loops are started (no await in between)
ConnectPostgres ==
    /\ lifePc = "connect_postgres"
    /\ postgres_adapter' = "connected"
    /\ tools' = "constructed"
    /\ loop' = [l \in Loops |-> "running"]
    /\ lifePc' = "running"
    /\ UNCHANGED <<redis_adapter, awaited, lockVars, syncVars, collabVars>>

\* connect() raises: nothing in initialize() catches the exception, so the
\* rest of initialize() (position `rest`) is skipped; run() re-raises it and
\* its "finally: await self.shutdown()" runs with self.sync_tasks empty
Swallowed(rest) == rest
Propagates(rest) == "close_postgres"

\* await self.redis_adapter.connect() raises
ConnectRedisFails ==
    /\ lifePc = "connect_redis"
    /\ redis_adapter' = "failed"
    /\ lifePc' = Propagates("connect_postgres")
    /\ UNCHANGED <<postgres_adapter, tools, loop, awaited, lockVars, syncVars, collabVars>>

\* await self.postgres_adapter.connect() raises
ConnectPostgresFails ==
    /\ lifePc = "connect_postgres"
    /\ postgres_adapter' = "failed"
    /\ lifePc' = Propagates("running")
    /\ UNCHANGED <<redis_adapter, tools, loop, awaited, lockVars, syncVars, collabVars>>

\* task.cancel(): the loop gets CancelledError at the await it is suspended in
Cancel(l) == [loop EXCEPT ![l] = IF @ = "done" THEN @ ELSE "cancelling"]

\* shutdown() begins: the first task of sync_tasks is cancelled and awaited
ShutdownBegin ==
    /\ lifePc = "running"
    /\ loop' = Cancel(sync_tasks[1])
    /\ awaited' = 0
    /\ lifePc' = "await_task"
    /\ UNCHANGED <<redis_adapter, postgres_adapter, tools, lockVars, syncVars, collabVars>>

\* a cancelled loop ends: CancelledError is no Exception, so neither "except
\* Exception" of the loop catches it; the iteration in progress is abandoned
\* and an open transaction is rolled back
LoopCancelled(l) ==
    /\ loop[l] = "cancelling"
    /\ loop' = [loop EXCEPT ![l] = "done"]
    /\ IF l = "pull"
       THEN /\ pullPc' = "sleep"
            /\ rows' = <<>>
            /\ rowIdx' = 0
            /\ UNCHANGED <<pushPc, batch, batchIdx, txNow, txAborted, txWrites>>
       ELSE /\ pushPc' = "sleep"
            /\ batch' = <<>>
            /\ batchIdx' = 0
            /\ txNow' = 0
            /\ txAborted' = FALSE
            /\ txWrites' = <<>>
            /\ UNCHANGED <<pullPc, rows, rowIdx>>
    /\ UNCHANGED <<dbTasks, dbClock, cacheTasks, last_sync_timestamp, write_queue,
                   fetchClock, abandoned, queued, executed, committed,
                   lifePc, redis_adapter, postgres_adapter, tools, awaited,
                   lockVars, collabVars>>

\* "await task" of shutdown() returns when the task has ended
NotAwaited(state) == TRUE
Acknowledged(state) == state = "done"

\* await task returns; the next task is cancelled, or the adapters are closed
ShutdownAwait ==
    /\ lifePc = "await_task"
    /\ Acknowledged(loop[sync_tasks[awaited + 1]])
    /\ awaited' = awaited + 1
    /\ IF awaited + 1 < Len(sync_tasks)
       THEN /\ loop' = Cancel(sync_tasks[awaited + 2])
            /\ UNCHANGED lifePc
       ELSE /\ lifePc' = "close_postgres"
            /\ UNCHANGED loop
    /\ UNCHANGED <<redis_adapter, postgres_adapter, tools, lockVars, syncVars, collabVars>>

\* "if self.postgres_adapter: await self.postgres_adapter.close()", and close()
\* itself closes what connect() has established: an adapter that is None, or
\* whose connect() raised, is left as it is
Closed(adapter) == IF adapter = "connected" THEN "closed" ELSE adapter

\* await self.postgres_adapter.close()
ClosePostgres ==
    /\ lifePc = "close_postgres"
    /\ postgres_adapter' = Closed(postgres_adapter)
    /\ lifePc' = "close_redis"
    /\ UNCHANGED <<redis_adapter, tools, loop, awaited, lockVars, syncVars, collabVars>>

\* await self.redis_adapter.close()
CloseRedis ==
    /\ lifePc = "close_redis"
    /\ redis_adapter' = Closed(redis_adapter)
    /\ lifePc' = "stopped"
    /\ UNCHANGED <<postgres_adapter, tools, loop, awaited, lockVars, syncVars, collabVars>>

\* an iteration of replication loop l takes a step only while its task runs
LoopRuns(l) == loop[l] = "running"

\* the steps of sync_from_postgres as the task that _start_sync_tasks created
PullFetch == LoopRuns("pull") /\ SyncFromFetch
PullSetTask == LoopRuns("pull") /\ SyncFromSetTask

\* the steps of sync_to_postgres as the task that _start_sync_tasks created
PushDrain == LoopRuns("push") /\ SyncToDrain
PushBegin == LoopRuns("push") /\ SyncToBegin
PushExecute == LoopRuns("push") /\ SyncToExecute
PushCommit == LoopRuns("push") /\ SyncToCommit

\* "except Exception as e: logger.error(...); await asyncio.sleep(5)" inside
\* "while True": the task of the loop goes on running
Dies(state) == "done"
BacksOff(state) == state

\* sync_from_postgres: set_task raises (cache store unreachable) in the middle
\* of an iteration; the rows not yet written and the assignment of the
\* watermark are skipped.  (A failing acquire or fetch leaves every variable
\* as it is.)
PullSetTaskFails ==
    /\ LoopRuns("pull")
    /\ pullPc = "set_task"
    /\ pullPc' = "sleep"
    /\ rows' = <<>>
    /\ rowIdx' = 0
    /\ loop' = [loop EXCEPT !["pull"] = BacksOff(@)]
    /\ abandoned' = abandoned \cup {rows[i].id : i \in 1..Len(rows)}
    /\ UNCHANGED <<dbTasks, dbClock, cacheTasks, last_sync_timestamp, write_queue,
                   pushPc, batch, batchIdx, txNow, txAborted, txWrites,
                   fetchClock, queued, executed, committed,
                   lifePc, redis_adapter, postgres_adapter, tools, awaited,
                   lockVars, collabVars>>

\* sync_to_postgres: pool.acquire() raises (durable store unreachable) after
\* the batch was taken from the queue
PushAcquireFails ==
    /\ LoopRuns("push")
    /\ pushPc = "acquire"
    /\ pushPc' = "sleep"
    /\ batch' = <<>>
    /\ batchIdx' = 0
    /\ loop' = [loop EXCEPT !["push"] = BacksOff(@)]
    /\ UNCHANGED <<dbTasks, dbClock, cacheTasks, last_sync_timestamp, write_queue,
                   pullPc, rows, rowIdx, txNow, txAborted, txWrites,
                   fetchClock, abandoned, queued, executed, committed,
                   lifePc, redis_adapter, postgres_adapter, tools, awaited,
                   lockVars, collabVars>>

\* the rows of table tasks are updated and update_task_status is called once
\* initialize() has constructed the adapters
LifeDirectUpdate(id, status) == postgres_adapter # None /\ DirectUpdate(id, status)
LifeUpdateTaskStatus(id, status) == postgres_adapter # None /\ UpdateTaskStatus(id, status)

(***************************************************************************)
(* api_claim_file (api.py): the handler has no check of the lifecycle; it  *)
(* calls file_tools.claim_file, which raises AttributeError while the      *)
(* global file_tools is None ("except Exception" turns it into HTTP 500).  *)
(***************************************************************************)
ApiClaimFile(t) ==
    IF tools = None
    THEN /\ pc[t] = "idle"
         /\ ncalls < MaxCalls
         /\ ncalls' = ncalls + 1
         /\ res' = [res EXCEPT ![t] = HttpError("claim_file", 500, AttributeError)]
         /\ UNCHANGED <<lock, lockTTL, taskFiles, lockEvents, fileUpdates, fileContent, lastWrite,
                        pc, arg, held, lockAge, lockEx, syncVars, collabVars, lifeVars>>
    ELSE \E p \in Paths, timeout_sec \in Timeouts :
            Call(t, "claim_set",
                 [NoArg EXCEPT !.path = p, !.timeout = timeout_sec, !.via = "api"])

\* claim_file: the SET of the cache store raises (connection lost, client
\* closed): "except Exception as e: return {'success': False, 'error': str(e)}"
ClaimFileSetRaises(t) ==
    /\ pc[t] = "claim_set"
    /\ Return(t, Result("claim_file", arg[t].path, FALSE, "absent", StoreError))
    /\ UNCHANGED <<lock, lockTTL, taskFiles, lockEvents, fileUpdates, fileContent, lastWrite,
                   ncalls, held, lockAge, lockEx, syncVars, collabVars, lifeVars>>

\* the same when shutdown() has closed the client
ClaimFileStoreError(t) == redis_adapter = "closed" /\ ClaimFileSetRaises(t)

(***************************************************************************)
(* Specifications.                                                         *)
(***************************************************************************)
\* the gateway as constructed
Init == InitLock /\ InitSync /\ InitCollab /\ InitLife

\* the gateway when initialize() has returned
Running == InitLock /\ InitSync /\ InitCollab /\ LifeRunning

\* the same, the pull loop having cached the rows of the tasks of CachedTasks
RunningCached ==
    /\ InitLock
    /\ InitSyncWith(CachedTasks)
    /\ InitCollab
    /\ LifeRunning

NextLock ==
    \/ \E t \in Tasks : CallClaimFile(t)
    \/ \E t \in Tasks : CallReleaseFile(t)
    \/ \E t \in Tasks : CallFileWrite(t)
    \/ \E t \in Tasks : ClaimFileSet(t)
    \/ \E t \in Tasks : ClaimFileGetOwner(t)
    \/ \E t \in Tasks : ClaimFilePublish(t)
    \/ \E t \in Tasks : ReleaseFileGet(t)
    \/ \E t \in Tasks : ReleaseFileDelete(t)
    \/ \E t \in Tasks : ReleaseFilePublish(t)
    \/ \E t \in Tasks : FileWriteCheck(t)
    \/ \E t \in Tasks : FileWriteWrite(t)
    \/ \E t \in Tasks : FileWritePublish(t)
    \/ Expire

\* claim_file and release_file within the timeout of every lock
NextClaimRelease ==
    \/ \E t \in Tasks : CallClaimFile(t)
    \/ \E t \in Tasks : CallReleaseFile(t)
    \/ \E t \in Tasks : ClaimFileSet(t)
    \/ \E t \in Tasks : ClaimFileGetOwner(t)
    \/ \E t \in Tasks : ClaimFilePublish(t)
    \/ \E t \in Tasks : ReleaseFileGet(t)
    \/ \E t \in Tasks : ReleaseFileDelete(t)
    \/ \E t \in Tasks : ReleaseFilePublish(t)

\* claim_file and release_file, the cache store failing at times
NextLockFault ==
    \/ \E t \in Tasks : CallClaimFile(t)
    \/ \E t \in Tasks : CallReleaseFile(t)
    \/ \E t \in Tasks : ClaimFileSet(t)
    \/ \E t \in Tasks : ClaimFileSetRaises(t)
    \/ \E t \in Tasks : ClaimFileGetOwner(t)
    \/ \E t \in Tasks : ClaimFilePublish(t)
    \/ \E t \in Tasks : ClaimFilePublishFails(t)
    \/ \E t \in Tasks : ReleaseFileGet(t)
    \/ \E t \in Tasks : ReleaseFileDelete(t)
    \/ \E t \in Tasks : ReleaseFilePublish(t)
    \/ \E t \in Tasks : ReleaseFilePublishFails(t)
    \/ Expire

\* file_write and file_read on the paths of FilePaths, MaxFileCalls calls
ToolFileWrite(t) == ncalls < MaxFileCalls /\ CallFileWriteIn(t, FilePaths)
ToolFileRead(t) == ncalls < MaxFileCalls /\ CallFileRead(t)

NextFile ==
    \/ \E t \in Tasks : ToolFileWrite(t)
    \/ \E t \in Tasks : FileWriteCheck(t)
    \/ \E t \in Tasks : FileWriteWrite(t)
    \/ \E t \in Tasks : FileWritePublish(t)
    \/ \E t \in Tasks : ToolFileRead(t)
    \/ \E t \in Tasks : FileReadGetTask(t)
    \/ \E t \in Tasks : FileReadRead(t)

\* file_write on the paths of FilePaths and claim_file, MaxFaultCalls calls
FaultFileWrite(t) == ncalls < MaxFaultCalls /\ CallFileWriteIn(t, FilePaths)
FaultClaimFile(t) == ncalls < MaxFaultCalls /\ CallClaimFile(t)

\* file_write on the paths of FilePaths next to claim_file, the cache store
\* failing at times
NextWriteFault ==
    \/ \E t \in Tasks : FaultFileWrite(t)
    \/ \E t \in Tasks : FileWriteCheck(t)
    \/ \E t \in Tasks : FileWriteGetOwnerFails(t)
    \/ \E t \in Tasks : FileWriteWrite(t)
    \/ \E t \in Tasks : FileWriteAddTaskFileFails(t)
    \/ \E t \in Tasks : FileWritePublish(t)
    \/ \E t \in Tasks : FileWritePublishFails(t)
    \/ \E t \in Tasks : FaultClaimFile(t)
    \/ \E t \in Tasks : ClaimFileSet(t)
    \/ \E t \in Tasks : ClaimFileGetOwner(t)
    \/ \E t \in Tasks : ClaimFilePublish(t)

\* direct updates of the durable store and the pull loop
NextPull ==
    \/ \E id \in TaskIds, status \in TaskStatus : DirectUpdate(id, status)
    \/ SyncFromFetch
    \/ SyncFromSetTask

\* the same, the cache store unreachable at times
NextPullFault ==
    \/ NextPull
    \/ PullSetTaskFails

\* the write queue and the push loop, the durable store always reachable
NextPush ==
    \/ \E id \in TaskIds, status \in TaskStatus \cup {BadStatus} : UpdateTaskStatus(id, status)
    \/ SyncToDrain
    \/ SyncToBegin
    \/ SyncToExecute
    \/ SyncToCommit

\* the same, the durable store unreachable at times
NextPushFault ==
    \/ NextPush
    \/ SyncToAcquireFails

\* update_task_status and both replication loops, no store failing
NextReplicate ==
    \/ \E id \in TaskIds, status \in TaskStatus : UpdateTaskStatus(id, status)
    \/ PullFetch
    \/ PullSetTask
    \/ PushDrain
    \/ PushBegin
    \/ PushExecute
    \/ PushCommit

\* both replication loops and the updates of other services, the cache store
\* failing at times
NextReplicateFault ==
    \/ \E id \in RaceTaskIds, status \in FaultStatus : DirectUpdate(id, status)
    \/ \E id \in RaceTaskIds, status \in FaultStatus : UpdateTaskStatus(id, status)
    \/ PullFetch
    \/ PullSetTask
    \/ PullSetTaskFails
    \/ PushDrain
    \/ PushBegin
    \/ PushExecute
    \/ PushCommit

\* both replication loops over the one durable store
NextSync == NextPull \/ NextPushFault

\* log_step and the reads of the logs
NextLog ==
    \/ \E a \in Agents : CallLogStep(a)
    \/ \E a \in Agents : LogStepLpush(a)
    \/ \E a \in Agents : LogStepExpire(a)
    \/ \E a \in Agents : LogStepPublish(a)
    \/ \E a \in Agents : CallReadLogs(a)
    \/ \E a \in Agents : ReadLogsReturn(a)
    \/ \E t \in Tasks : LogKeyExpires(t)

\* the same, the publish on the log channel failing at times
NextLogFault ==
    \/ NextLog
    \/ \E a \in Agents : LogStepPublishFails(a)

\* join_collaboration and leave_collaboration
NextCollab ==
    \/ \E a \in Agents : CallJoinCollaboration(a)
    \/ \E a \in Agents : CallLeaveCollaboration(a)
    \/ \E a \in Agents : JoinSadd(a)
    \/ \E a \in Agents : JoinExpire(a)
    \/ \E a \in Agents : JoinPublish(a)
    \/ \E a \in Agents : LeaveSrem(a)
    \/ \E a \in Agents : LeavePublish(a)
    \/ \E t \in Tasks : CollabKeyExpires(t)

\* the same within the hour of the key collaboration:<t>
NextPresence ==
    \/ \E a \in Agents : CallJoinCollaboration(a)
    \/ \E a \in Agents : CallLeaveCollaboration(a)
    \/ \E a \in Agents : JoinSadd(a)
    \/ \E a \in Agents : JoinExpire(a)
    \/ \E a \in Agents : JoinPublish(a)
    \/ \E a \in Agents : LeaveSrem(a)
    \/ \E a \in Agents : LeavePublish(a)

\* initialize() and shutdown()
NextLifecycle ==
    \/ InitializeBegin
    \/ ConnectRedis
    \/ ConnectPostgres
    \/ ShutdownBegin
    \/ \E l \in Loops : LoopCancelled(l)
    \/ ShutdownAwait
    \/ ClosePostgres
    \/ CloseRedis

\* the lifecycle and the replication loops, which run while their tasks do
NextLife ==
    \/ NextLifecycle
    \/ \E id \in LifeTaskIds, status \in TaskStatus : LifeDirectUpdate(id, status)
    \/ \E id \in LifeTaskIds, status \in TaskStatus : LifeUpdateTaskStatus(id, status)
    \/ PullFetch
    \/ PullSetTask
    \/ PushDrain
    \/ PushBegin
    \/ PushExecute
    \/ PushCommit

\* the same, the stores unreachable at times when initialize() connects
NextStart ==
    \/ NextLife
    \/ ConnectRedisFails
    \/ ConnectPostgresFails

\* the lifecycle and the replication loops, the stores failing at times
NextLoopFault ==
    \/ NextLifecycle
    \/ \E id \in LifeTaskIds, status \in FaultStatus : LifeDirectUpdate(id, status)
    \/ \E id \in LifeTaskIds, status \in FaultStatus : LifeUpdateTaskStatus(id, status)
    \/ PullFetch
    \/ PullSetTask
    \/ PullSetTaskFails
    \/ PushDrain
    \/ PushBegin
    \/ PushExecute
    \/ PushCommit
    \/ PushAcquireFails

\* the lifecycle and the calls of claim_file through the HTTP API
NextServe ==
    \/ NextLifecycle
    \/ \E t \in Tasks : ApiClaimFile(t)
    \/ \E t \in Tasks : ClaimFileSet(t)
    \/ \E t \in Tasks : ClaimFileStoreError(t)
    \/ \E t \in Tasks : ClaimFileGetOwner(t)
    \/ \E t \in Tasks : ClaimFilePublish(t)

\* claim_file called through the HTTP API and through the MCP handler, the
\* cache store failing at times
NextApi ==
    \/ \E t \in Tasks : ApiClaimFile(t)
    \/ \E t \in Tasks : CallClaimFile(t)
    \/ \E t \in Tasks : ClaimFileSet(t)
    \/ \E t \in Tasks : ClaimFileSetRaises(t)
    \/ \E t \in Tasks : ClaimFileGetOwner(t)
    \/ \E t \in Tasks : ClaimFilePublish(t)

\* The whole gateway.  Its parts share few variables, so the properties of
\* each part are checked under the specification of that part.
Next == NextLock \/ NextFile \/ NextSync \/ NextLogFault \/ NextCollab \/ NextStart \/ NextServe
           \/ NextApi \/ NextLoopFault

SpecLock == Running /\ [][NextLock]_vars
SpecClaimRelease == Running /\ [][NextClaimRelease]_vars
SpecLockFault == Running /\ [][NextLockFault]_vars
SpecWriteFault == Running /\ [][NextWriteFault]_vars
SpecFile == RunningCached /\ [][NextFile]_vars
SpecPull == Running /\ [][NextPull]_vars
SpecPullFault == Running /\ [][NextPullFault]_vars
SpecPush == Running /\ [][NextPush]_vars
SpecReplicateFault == Running /\ [][NextReplicateFault]_vars
\* the event loop runs both tasks: after its sleep each loop takes the next
\* step of its iteration
SpecReplicate ==
    /\ Running /\ [][NextReplicate]_vars
    /\ WF_vars(PullFetch) /\ WF_vars(PullSetTask)
    /\ WF_vars(PushDrain) /\ WF_vars(PushBegin) /\ WF_vars(PushExecute) /\ WF_vars(PushCommit)
SpecPushFault == Running /\ [][NextPushFault]_vars
SpecLog == Running /\ [][NextLog]_vars
SpecLogFault == Running /\ [][NextLogFault]_vars
SpecCollab == Running /\ [][NextCollab]_vars
SpecPresence == Running /\ [][NextPresence]_vars
SpecLife == Init /\ [][NextLife]_vars
SpecStart == Init /\ [][NextStart]_vars
SpecServe == Init /\ [][NextServe]_vars
\* the event loop runs a cancelled task: it gets its CancelledError
SpecLoopFault ==
    /\ Init /\ [][NextLoopFault]_vars
    /\ \A l \in Loops : WF_vars(LoopCancelled(l))
SpecApi == Running /\ [][NextApi]_vars
Spec == Init /\ [][Next]_vars


(***************************************************************************)
(* Properties of the file locks (SpecLock).                                *)
(***************************************************************************)
ClaimOk(p) == Result("claim_file", p, TRUE, TRUE, NoErr)
ClaimFailed(p, owner) == Result("claim_file", p, FALSE, FALSE, LockedBy(owner))
ReleaseOk(p) == Result("release_file", p, TRUE, FALSE, NoErr)
ReleaseFailed(p, owner) == Result("release_file", p, FALSE, "absent", ReleaseError(owner))

\* t's call leaves the position `label` in this step
Leaves(t, label) == pc[t] = label /\ pc'[t] # label

C2_AtMostOneHolder ==
    \A p \in Paths : Cardinality({t \in Tasks : held[t][p] > 0}) <= 1

\* C3: the DELETE of release_file(A, p) never removes a lock key on p that
\* holds another task's id.
C3_ReleaseDeletesOnlyOwnLock ==
    [][\A A \in Tasks :
          Leaves(A, "release_delete") => lock[arg[A].path] \in {A, None}]_vars

\* C4: release_file(B, p) that finds p locked by another task A, or not locked,
\* returns success=false with the error of that condition, and changes neither
\* the lock key nor its expiry nor the messages of the lock channel.
C4_ReleaseByNonOwnerRefused ==
    [][\A B \in Tasks :
          LET p == arg[B].path IN
          (Leaves(B, "release_get") /\ lock[p] # B)
             => /\ pc'[B] = "idle"
                /\ res'[B] = Result("release_file", p, FALSE, "absent",
                                    IF lock[p] = None THEN LockNotHeld
                                                      ELSE CannotRelease(lock[p]))
                /\ UNCHANGED <<lock, lockTTL, lockEvents>>]_vars

\* a release by B was refused naming the owner A, who still holds the lock
C4_Witness ==
    \E p \in Paths : \E B \in Tasks : \E A \in Tasks \ {B} :
        /\ res[B] = ReleaseFailed(p, A)
        /\ lock[p] = A
        /\ \A i \in 1..Len(lockEvents[p]) : lockEvents[p][i].locked

\* C5: file_write(B, p, c) never writes the file p while the lock on p is held
\* by another task.
C5_NoWriteUnderForeignLock ==
    [][\A B \in Tasks :
          Leaves(B, "write_file") => lock[arg[B].path] \in {B, None}]_vars

\* C6: the DELETE of a release leaves the lock key absent and the release
\* returns success; a claim_file that finds the key absent takes the lock for
\* its caller and returns success.
C6_ReleaseThenClaimSucceeds ==
    [][\A t \in Tasks :
          LET p == arg[t].path IN
          /\ Leaves(t, "release_delete")
                => lock'[p] = None /\ pc'[t] = "release_publish"
          /\ Leaves(t, "release_publish")
                => res'[t] = ReleaseOk(p) /\ pc'[t] = "idle" /\ lock' = lock
          /\ (Leaves(t, "claim_set") /\ lock[p] = None)
                => lock'[p] = t /\ pc'[t] = "claim_publish"
          /\ Leaves(t, "claim_publish")
                => res'[t] = ClaimOk(p) /\ pc'[t] = "idle" /\ lock' = lock]_vars

\* the scenario: T1 claimed, T2's claim failed, T1 released, T2 claimed
C6_Witness ==
    \E p \in Paths : \E T1 \in Tasks : \E T2 \in Tasks \ {T1} :
        /\ res[T1] = ReleaseOk(p)
        /\ res[T2] = ClaimOk(p)
        /\ lock[p] = T2
        /\ lockEvents[p] = << [locked |-> TRUE, by |-> T1], [locked |-> FALSE, by |-> T1],
                              [locked |-> TRUE, by |-> T2] >>
        /\ ncalls = 4
        /\ fileUpdates = <<>> /\ \A t \in Tasks : pc[t] \notin {"write_check", "write_file", "write_publish"}

\* C7: a lock key never outlives the timeout_sec of the claim that set it:
\* the store removes it when that many seconds have passed, whatever the
\* gateways do.
C7_LockExpires ==
    \A p \in Paths : lock[p] # None => lockAge[p] < lockEx[p]

\* A's lock was never released and expired; B then claimed the path with success
C7_Witness ==
    \E p \in Paths : \E A \in Tasks : \E B \in Tasks \ {A} :
        /\ pc[A] = "idle" /\ res[A] = ClaimOk(p)
        /\ pc[B] = "idle" /\ res[B] = ClaimOk(p)
        /\ lockEvents[p] = << [locked |-> TRUE, by |-> A], [locked |-> TRUE, by |-> B] >>
        /\ lock[p] = B

(***************************************************************************)
(* Properties of the replication loops.                                    *)
(***************************************************************************)
InSeq(x, seq) == \E i \in 1..Len(seq) : seq[i] = x

\* C8: when an iteration of the pull loop is over, every cached task whose row
\* was committed before the fetch of that iteration is cached as the row is.
C8_PullCachesCommittedRows ==
    pullPc = "sleep" =>
        \A id \in TaskIds :
            (cacheTasks[id] # NoTask /\ dbTasks[id].updated_at <= fetchClock)
                => cacheTasks[id] = TaskData(Row(id))

\* C9: no write is dropped: every write enqueued (none of which the store
\* rejects) is in the queue, in the batch in progress, or committed.
C9_NoWriteDropped ==
    (\A i \in 1..Len(queued) : ~Rejected(queued[i])) =>
        \A i \in 1..Len(queued) :
            InSeq(queued[i], write_queue) \/ InSeq(queued[i], batch) \/ i \in committed

\* C10: when a batch is over, the effect of every statement of it that the
\* store does not reject is committed, whatever its siblings did.
C10_SiblingsPersisted ==
    pushPc = "sleep" =>
        \A i \in 1..Len(queued) :
            (~InSeq(queued[i], write_queue) /\ ~Rejected(queued[i])) => i \in committed

(***************************************************************************)
(* Properties of the execution logs (SpecLog).                             *)
(***************************************************************************)
\* a's call leaves the position `label` in this step
AgentLeaves(a, label) == agentPc[a] = label /\ agentPc'[a] # label

LogStepInFlight(a) == agentPc[a] \in {"log_lpush", "log_expire", "log_publish"}

RECURSIVE Reverse(_)
Reverse(seq) == IF seq = <<>> THEN <<>> ELSE Append(Reverse(Tail(seq)), Head(seq))

\* C11: the push of log_step(t, e) puts at the head of t's list the entry e
\* with the fields timestamp and task_id present, stamped by the gateway where
\* e had none and as supplied otherwise; and a read of t's log made after
\* log_step returned success, no other entry pushed since (and the key not
\* expired), returns that entry first.
C11_LoggedEntryReadAtHead ==
    [][/\ \A a \in Agents :
             AgentLeaves(a, "log_lpush") =>
                LET t == agentArg[a].task_id
                    e == agentArg[a].step
                    h == json_loads(Head(logs'[t]))
                IN  /\ h.action = e.action /\ h.agent_id = e.agent_id
                    /\ h.timestamp # NoTimestamp /\ h.task_id # None
                    /\ IF e.timestamp = NoTimestamp
                       THEN \E now \in StampTimes : h.timestamp = isoformat(now)
                       ELSE h.timestamp = e.timestamp
                    /\ h.task_id = (IF e.task_id = None THEN t ELSE e.task_id)
       /\ \A r \in Agents : \A a \in Agents :
             LET t == agentArg[r].task_id IN
             (/\ AgentLeaves(r, "logs_lrange")
              /\ agentPc[a] = "idle"
              /\ agentRes[a].op = "log_step"
              /\ agentRes[a].success /\ agentRes[a].task_id = t
              /\ lastAppender[t] = a)
                => /\ agentRes'[r].logs # <<>>
                   /\ agentRes'[r].logs[1] = agentRes[a].step
                   /\ agentRes'[r].logs[1].timestamp # NoTimestamp
                   /\ agentRes'[r].logs[1].task_id # None]_vars

\* an entry logged without timestamp and task_id was read back at the head,
\* stamped, by the other agent, under an older entry of the same task
C11_Witness ==
    \E a \in Agents : \E r \in Agents \ {a} : \E t \in Tasks :
        /\ agentRes[a].op = "log_step" /\ agentRes[a].task_id = t
        /\ agentRes[r].op = "logs" /\ agentRes[r].task_id = t
        /\ Len(agentRes[r].logs) = 2
        /\ agentRes[r].logs[1] = agentRes[a].step
        /\ agentRes[r].logs[1].task_id = t
        /\ agentRes[r].logs[1].timestamp \in {isoformat(now) : now \in StampTimes}

\* C12: when no log_step on a task is in flight, the entries were published on
\* the task's channel in the order in which they were pushed on its list.
C12_PublishOrderIsAppendOrder ==
    \A t \in Tasks :
        (\A a \in Agents : LogStepInFlight(a) => agentArg[a].task_id # t)
            => logStream[t] = [i \in 1..Len(appended[t]) |-> json_dumps(appended[t][i])]

\* C13: while the key of a task's log has not expired, the list holds exactly
\* the entries pushed by the log_step calls on that task, each once, the last
\* pushed first.
C13_LogHoldsAppendedEntries ==
    \A t \in Tasks :
        ~logExpired[t] =>
            logs[t] = Reverse([i \in 1..Len(appended[t]) |-> json_dumps(appended[t][i])])

\* two entries of one task, pushed by different agents, and an entry of the
\* other task
C13_Witness ==
    \E t \in Tasks : \E u \in Tasks \ {t} :
        /\ ~logExpired[t]
        /\ Len(logs[t]) = 2
        /\ json_loads(logs[t][1]).agent_id # json_loads(logs[t][2]).agent_id
        /\ Len(logs[u]) = 1

\* C14: every entry that log_step has logged with success is on the write
\* queue, or was on it, as an insert into execution_logs.
C14_LoggedEntriesEnqueued ==
    \A a \in Agents :
        (agentRes[a].op = "log_step" /\ agentRes[a].success)
            => \E i \in 1..Len(queued) :
                  /\ queued[i].sql = "INSERT INTO execution_logs"
                  /\ queued[i].task_id = agentRes[a].task_id

(***************************************************************************)
(* Properties of the file tools (SpecFile).                                *)
(***************************************************************************)
IsPrefix(a, b) == Len(a) <= Len(b) /\ SubSeq(b, 1, Len(a)) = a

\* the file a full path names is the workspace root or lies under it
InsideWorkspace(full_path) ==
    IsPrefix(resolve(workspace_root).parts, resolve(full_path).parts)

\* t's file_read returns in this step
ReadReturns(t) == pc[t] \in {"read_get_task", "read_file"} /\ pc'[t] = "idle"

C16_WritesAreTaskScoped ==
    [][\A t1 \in Tasks : \A t2 \in Tasks \ {t1} : \A p \in FilePaths :
          LET f == FileAt(ReadFullPath(t2, ParseUri(Uri(t2, p)).file_path)) IN
          (Leaves(t1, "write_file") /\ arg[t1].path = p /\ get_task(<<t2>>) # NoTask)
             => fileContent'[f] = fileContent[f]]_vars

\* C17: for a path that names a file outside the workspace root, file_write
\* and file_read return the path-traversal error and the file system is not
\* written.
C17_TraversalRejected ==
    [][\A t \in Tasks : \A p \in FilePaths :
          (arg[t].path = p /\ ~InsideWorkspace(WriteFullPath(t, p)))
             => /\ Leaves(t, "write_file")
                     => /\ res'[t] = Result("file_write", p, FALSE, "absent", PathTraversal)
                        /\ fileContent' = fileContent
                /\ Leaves(t, "read_file")
                     => res'[t] = ReadResult(p, FALSE, None, PathTraversal)]_vars

(***************************************************************************)
(* Properties of the collaboration sets (SpecCollab).                      *)
(***************************************************************************)
\* C18: the SADD of a join leaves the set with the agent in it once, and as it
\* was when the agent was a member already; the SREM of a leave leaves the set
\* without the agent, and as it was when the agent was no member; both tools
\* return success in either case.
C18_JoinLeaveIdempotent ==
    [][\A a \in Agents :
          LET t == agentArg[a].task_id
              agent_id == agentArg[a].agent_id
          IN  /\ AgentLeaves(a, "join_sadd")
                   => /\ collab'[t] = collab[t] \cup {agent_id}
                      /\ agent_id \in collab[t] => collab'[t] = collab[t]
                      /\ Cardinality(collab'[t]) =
                            Cardinality(collab[t]) + (IF agent_id \in collab[t] THEN 0 ELSE 1)
              /\ AgentLeaves(a, "join_publish")
                   => agentRes'[a] = CollabOk("join_collaboration", t, agent_id)
              /\ AgentLeaves(a, "leave_srem")
                   => /\ agent_id \notin collab'[t]
                      /\ collab'[t] = collab[t] \ {agent_id}
                      /\ agent_id \notin collab[t] => collab'[t] = collab[t]
              /\ AgentLeaves(a, "leave_publish")
                   => agentRes'[a] = CollabOk("leave_collaboration", t, agent_id)]_vars

\* an agent joined a task twice and left it once: it is no member any more
C18_Witness ==
    \E t \in Tasks : \E g \in Agents :
        /\ collabEvents[t] = << [event |-> "agent_joined", agent_id |-> g],
                                [event |-> "agent_joined", agent_id |-> g],
                                [event |-> "agent_left", agent_id |-> g] >>
        /\ collab[t] = {}
        /\ \A a \in Agents : agentPc[a] = "idle"

(***************************************************************************)
(* Properties of the lifecycle (SpecServe, SpecLife).                      *)
(***************************************************************************)
LifecycleOrder ==
    { <<"uninitialized", "initializing">>, <<"initializing", "running">>,
      <<"running", "shutting_down">>, <<"shutting_down", "stopped">> }

\* the caller got no success: a dictionary with success false or an HTTP error
Failed(r) == IF "success" \in DOMAIN r THEN ~r.success ELSE "status_code" \in DOMAIN r

\* task t makes a call of a tool in this step
CallArrives(t) ==
    /\ ncalls' = ncalls + 1
    /\ pc[t] = "idle"
    /\ pc'[t] # "idle" \/ res'[t] # res[t]

\* C19: the lifecycle state changes only along uninitialized, initializing,
\* running, shutting_down, stopped, and a call that arrives in a state other
\* than running is not served: it returns a failure at once and the stores
\* stay as they are.
C19_ServedOnlyWhileRunning ==
    [][/\ GatewayState' # GatewayState
            => <<GatewayState, GatewayState'>> \in LifecycleOrder
       /\ \A t \in Tasks :
             CallArrives(t) /\ GatewayState # "running"
                => /\ pc'[t] = "idle"
                   /\ Failed(res'[t])
                   /\ UNCHANGED <<lock, lockTTL, taskFiles, lockEvents, syncVars>>]_vars

AdaptersConnected == redis_adapter = "connected" /\ postgres_adapter = "connected"

\* an iteration of a replication loop takes a step
LoopSteps ==
    /\ loop' = loop
    /\ <<pullPc, rows, rowIdx, pushPc, batch, batchIdx, txNow, txWrites>>' #
          <<pullPc, rows, rowIdx, pushPc, batch, batchIdx, txNow, txWrites>>

\* C20: no adapter is closed before both replication loops have ended, ended
\* they are because shutdown() cancelled them, the durable store's adapter is
\* closed before the cache store's, and a loop takes its steps only while both
\* adapters are connected.
C20_LoopsEndBeforeAdaptersClose ==
    /\ [](("closed" \in {redis_adapter, postgres_adapter})
            => \A l \in Loops : loop[l] = "done")
    /\ [](redis_adapter = "closed" => postgres_adapter = "closed")
    /\ [][/\ LoopSteps => AdaptersConnected
          /\ postgres_adapter' # postgres_adapter /\ postgres_adapter' = "closed"
               => redis_adapter = "connected" /\ awaited = Len(sync_tasks)
          /\ redis_adapter' # redis_adapter /\ redis_adapter' = "closed"
               => postgres_adapter = "closed"]_vars

\* shutdown() has returned; the push loop was cancelled with an update still
\* in the write queue, after the loops had replicated in both directions
C20_Witness ==
    /\ lifePc = "stopped"
    /\ redis_adapter = "closed" /\ postgres_adapter = "closed"
    /\ \A l \in Loops : loop[l] = "done"
    /\ write_queue # <<>>
    /\ committed # {}
    /\ \E id \in TaskIds : cacheTasks[id] # NoTask

\* a connection could not be established
ConnectFailed == "failed" \in {redis_adapter, postgres_adapter}

\* C21: once connect() of either adapter has raised, no replication loop is
\* ever started, the tools are never constructed and the gateway never is in
\* the running state.
C21_FailedConnectAbortsStartup ==
    /\ [](ConnectFailed => /\ \A l \in Loops : loop[l] = "not_started"
                            /\ tools = None
                            /\ GatewayState # "running")
    /\ [][ConnectFailed => ConnectFailed']_vars

\* the cache store was connected, the durable store could not be: run() has
\* closed the cache store's connection and ended
C21_Witness ==
    /\ postgres_adapter = "failed"
    /\ redis_adapter = "closed"
    /\ lifePc = "stopped"
    /\ \A l \in Loops : loop[l] = "not_started"

(***************************************************************************)
(* Properties of the tools' failures (SpecApi).                            *)
(***************************************************************************)
\* the dictionary {success: false, error: <message>}
FailureResult(r) ==
    /\ "success" \in DOMAIN r /\ ~r.success
    /\ "error" \in DOMAIN r /\ r.error # NoErr

\* C22: a call of claim_file that has failed, a failing cache store included,
\* has given its caller the result {success: false, error: <message>}.
C22_FailureIsAResult ==
    \A t \in Tasks :
        (pc[t] = "idle" /\ res[t] # NoRes /\ Failed(res[t])) => FailureResult(res[t])

(***************************************************************************)
(* Properties of the push loop (SpecPush, SpecLife).                       *)
(***************************************************************************)
\* the queue has been drained and no batch is in progress
QueueDrained == write_queue = <<>> /\ pushPc = "sleep"

\* C23: two updates of one row that the store accepts were enqueued, u1 before
\* u2, and u2 is the last update of that row: once the queue has been drained
\* the row has u2's value, whatever the other entries of the queue were.
C23_LastQueuedWriteWins ==
    QueueDrained =>
        \A i, j \in 1..Len(queued) :
            (/\ i < j
             /\ queued[i].task_id = queued[j].task_id
             /\ ~Rejected(queued[i]) /\ ~Rejected(queued[j])
             /\ \A k \in (j + 1)..Len(queued) : queued[k].task_id # queued[j].task_id)
                => dbTasks[queued[j].task_id].status = queued[j].status

(***************************************************************************)
(* Properties of the execution logs when the publish fails (SpecLogFault). *)
(***************************************************************************)
\* a's last call was a log_step on task t that returned a failure
LogStepHasFailed(a, t) ==
    /\ agentPc[a] = "idle"
    /\ agentRes[a].op = "log_step" /\ ~agentRes[a].success
    /\ agentArg[a].task_id = t

\* C24: the step in which the publish of log_step fails leaves the list of
\* the task as the append made it, and a read of the log made afterwards (the
\* key not expired) returns the entry.
C24_PublishFailureKeepsEntry ==
    [][/\ \A a \in Agents :
             (AgentLeaves(a, "log_publish") /\ ~agentRes'[a].success)
                => /\ logs' = logs
                   /\ logExpired[agentArg[a].task_id]
                        \/ InSeq(json_dumps(agentArg[a].step), logs'[agentArg[a].task_id])
       /\ \A r \in Agents : \A a \in Agents :
             LET t == agentArg[r].task_id IN
             (AgentLeaves(r, "logs_lrange") /\ LogStepHasFailed(a, t) /\ ~logExpired[t])
                => InSeq(agentArg[a].step, agentRes'[r].logs)]_vars

\* the publish of an agent's log_step has failed, nothing was published, and
\* the other agent's read is at its LRANGE, the entry in the list
C24_Witness ==
    \E a \in Agents : \E r \in Agents \ {a} : \E t \in Tasks :
        /\ LogStepHasFailed(a, t)
        /\ logStream[t] = <<>>
        /\ ~logExpired[t]
        /\ agentPc[r] = "logs_lrange" /\ agentArg[r].task_id = t
        /\ get_logs(t, get_logs_limit) = <<agentArg[a].step>>

(***************************************************************************)
(* Properties of the step numbers (SpecLog).                               *)
(***************************************************************************)
\* C25: in the log of a task the step numbers of the entries increase
\* strictly in the order of the appends, whichever agents appended them.
C25_StepsIncreasePerTask ==
    \A t \in Tasks :
        \A i, j \in 1..Len(appended[t]) :
            i < j => appended[t][i].step < appended[t][j].step

(***************************************************************************)
(* Properties of the pull loop (SpecPull).                                 *)
(***************************************************************************)
\* C26: the cache store holds no entry of a completed task: the entry is
\* evicted when the task completes and the pull loop does not write it again.
C26_CompletedTaskNotCached ==
    \A id \in TaskIds :
        cacheTasks[id] # NoTask => cacheTasks[id].status # "completed"

\* C27: the watermark never passes a changed row that is not cached: every
\* row updated since connect() whose updated_at the watermark has reached is in
\* the cache as it is in the durable store (a row above the watermark is
\* fetched by a later iteration; one at or below it never is again).
C27_WatermarkSkipsNoRow ==
    \A id \in TaskIds :
        (dbTasks[id].updated_at > 0 /\ dbTasks[id].updated_at <= last_sync_timestamp)
            => cacheTasks[id] = TaskData(Row(id))

\* C28: when the push loop has ended, cancelled by shutdown(), the batch it
\* was executing has been committed: every update ever enqueued is committed
\* or still in the queue.
C28_CancelledBatchCompletes ==
    loop["push"] = "done" =>
        \A i \in 1..Len(queued) : InSeq(queued[i], write_queue) \/ i \in committed

(***************************************************************************)
(* Properties of the loops when the stores fail (SpecLoopFault).           *)
(***************************************************************************)
\* an iteration of loop l is abandoned on an exception of a store call
IterationFails(l) ==
    IF l = "pull" THEN pullPc = "set_task" /\ pullPc' = "sleep" /\ rows' = <<>>
                  ELSE pushPc = "acquire" /\ pushPc' = "sleep" /\ batch' = <<>>

\* C29: an exception of a store call inside an iteration leaves the loop
\* running, back at its sleep; a loop ends only from the cancellation of
\* shutdown(); and a cancelled loop ends.
C29_OnlyCancellationEndsLoop ==
    /\ [][\A l \in Loops :
            /\ (loop[l] = "running" /\ IterationFails(l)) => loop'[l] = "running"
            /\ (loop'[l] = "done" /\ loop[l] # "done")
                  => loop[l] = "cancelling" /\ GatewayState = "shutting_down"]_vars
    /\ \A l \in Loops : (loop[l] = "cancelling") ~> (loop[l] = "done")

\* an iteration of the push loop has failed and the loop has run on: having
\* lost a batch, it has committed a later one; then shutdown() has ended both
\* loops
C29_Witness ==
    /\ \A l \in Loops : loop[l] = "done"
    /\ lifePc = "stopped"
    /\ Len(queued) > Cardinality(committed) + Len(write_queue)
    /\ committed # {}
    /\ \E i \in 1..Len(queued) : i \notin committed /\ \E j \in committed : j > i

(***************************************************************************)
(* Order of the writes of the push loop (SpecPush).                        *)
(***************************************************************************)
\* the entries taken from the queue so far
Taken == Len(queued) - Len(write_queue)

\* C30: the batch in progress followed by the queue is the tail of the
\* sequence of the writes enqueued, in its order; an iteration takes at most
\* sync_batch_size entries from the head of the queue and leaves the others in
\* their order; and the statements are executed in the order of the enqueuing,
\* each one the successor of the one executed before it, across the batches.
C30_WritesExecutedInQueueOrder ==
    /\ [](/\ Len(batch) <= sync_batch_size
          /\ Taken >= Len(batch)
          /\ batch \o write_queue
               = SubSeq(queued, Taken - Len(batch) + 1, Len(queued)))
    /\ [][/\ (pushPc = "sleep" /\ pushPc' = "acquire")
              => /\ batch' \o write_queue' = write_queue
                 /\ Len(batch') = Min(sync_batch_size, Len(write_queue))
          /\ (pushPc = "execute" /\ batchIdx' = batchIdx + 1)
              => /\ batch[batchIdx + 1] = queued[Taken - Len(batch) + batchIdx + 1]
                 /\ batch[batchIdx + 1].id = Taken - Len(batch) + batchIdx + 1]_vars

\* a batch of sync_batch_size entries is in execution, its first statement
\* executed, a later entry waiting in the queue
C30_Witness ==
    /\ pushPc = "execute"
    /\ Len(batch) = sync_batch_size
    /\ batchIdx = 1
    /\ write_queue # <<>>
    /\ write_queue[1].id = Len(batch) + 1

(***************************************************************************)
(* Properties of the watermark (SpecPullFault).                            *)
(***************************************************************************)
\* the greatest updated_at among the rows of a fetch
Greatest(fetched) ==
    CHOOSE ts \in {fetched[i].updated_at : i \in 1..Len(fetched)} :
        \A i \in 1..Len(fetched) : fetched[i].updated_at <= ts

\* C31: the watermark never decreases; it changes only at the end of an
\* iteration that fetched rows, to the greatest updated_at among these rows,
\* and every such iteration that does not fail ends so; an iteration that
\* fetches no row and one that fails leave it as it was.
C31_WatermarkIsGreatestFetched ==
    [][/\ last_sync_timestamp' >= last_sync_timestamp
       /\ last_sync_timestamp' # last_sync_timestamp
             => /\ pullPc = "set_task" /\ rowIdx + 1 = Len(rows) /\ pullPc' = "sleep"
                /\ last_sync_timestamp' = Greatest(rows)
       /\ (SyncFromSetTask /\ pullPc' = "sleep")
             => last_sync_timestamp' = Greatest(rows)
       /\ (SyncFromFetch /\ rows' = <<>>) => last_sync_timestamp' = last_sync_timestamp
       /\ PullSetTaskFails => last_sync_timestamp' = last_sync_timestamp]_vars

\* an iteration has fetched two rows of different updated_at and has ended:
\* the watermark is at the newer one, above the older one
C31_Witness ==
    /\ pullPc = "sleep"
    /\ last_sync_timestamp > 1
    /\ \E id \in TaskIds :
          /\ dbTasks[id].updated_at > 0
          /\ dbTasks[id].updated_at < last_sync_timestamp
          /\ cacheTasks[id] = TaskData(Row(id))
          /\ fetchClock = last_sync_timestamp

(***************************************************************************)
(* Properties of the replication of a status update (SpecReplicate).       *)
(***************************************************************************)
\* the status of the last update of task id that update_task_status enqueued
RECURSIVE LastQueued(_, _)
LastQueued(id, ops) ==
    IF ops = <<>> THEN None
    ELSE IF ops[Len(ops)].task_id = id THEN ops[Len(ops)].status
    ELSE LastQueued(id, SubSeq(ops, 1, Len(ops) - 1))

\* C32: when update_task_status has enqueued status s for task id, no store
\* call fails and both loops go on running, the cached copy of id shows s in
\* the end, unless a later update of the same task takes its place.
C32_QueuedStatusReachesCache ==
    \A id \in TaskIds, s \in TaskStatus :
        (LastQueued(id, queued) = s)
            ~> (cacheTasks[id].status = s \/ LastQueued(id, queued) # s)

(***************************************************************************)
(* Properties of the presence events (SpecPresence).                       *)
(***************************************************************************)
\* a call of join_collaboration or leave_collaboration for agent_id on task t
\* is in flight
PresenceInFlight(t, agent_id) ==
    \E a \in Agents :
        /\ agentPc[a] \in {"join_sadd", "join_expire", "join_publish",
                           "leave_srem", "leave_publish"}
        /\ agentArg[a].task_id = t
        /\ agentArg[a].agent_id = agent_id

\* the event of the most recent presence message published for agent_id on
\* the events channel of task t (None: no message yet)
RECURSIVE LastPresence(_, _)
LastPresence(events, agent_id) ==
    IF events = <<>> THEN None
    ELSE IF events[Len(events)].agent_id = agent_id THEN events[Len(events)].event
    ELSE LastPresence(SubSeq(events, 1, Len(events) - 1), agent_id)

\* a call that returns success has published its one event, agent_joined for
\* a join and agent_left for a leave, the membership changed before
PresenceEventPerCall ==
    [][\A a \in Agents :
          (agentPc[a] # "idle" /\ agentPc'[a] = "idle" /\ agentRes'[a].success)
            => LET t == agentArg[a].task_id
                   agent_id == agentArg[a].agent_id
               IN  /\ agentPc[a] \in {"join_publish", "leave_publish"}
                   /\ collabEvents'[t] = Append(collabEvents[t],
                         [event |-> IF agentPc[a] = "join_publish"
                                    THEN "agent_joined" ELSE "agent_left",
                          agent_id |-> agent_id])
                   /\ \A u \in Tasks \ {t} : collabEvents'[u] = collabEvents[u]]_vars

\* C33: when no join or leave of an agent is in flight on a task, the agent
\* is a member of the task's collaboration set exactly when the most recent
\* presence event published for it on the task's channel is agent_joined.
C33_MembershipMatchesLastEvent ==
    \A t \in Tasks, agent_id \in Agents :
        ~PresenceInFlight(t, agent_id)
            => (agent_id \in collab[t]
                  <=> LastPresence(collabEvents[t], agent_id) = "agent_joined")

(***************************************************************************)
(* Results of the lock tools when the cache store fails (SpecLockFault).   *)
(***************************************************************************)
\* t's call returns in this step, with success=false
ReturnsFailure(t, op) ==
    /\ pc[t] # "idle" /\ pc'[t] = "idle"
    /\ res'[t].op = op
    /\ ~res'[t].success

\* C34: a claim_file that returns success=false has not stored its task id
\* in the lock key (the call is at "claim_publish" exactly when its SET has
\* stored it), and a release_file that returns success=false has not deleted
\* the lock key (it is at "release_publish" exactly when its DELETE has run).
C34_FailureLeftLockAlone ==
    [][\A t \in Tasks :
          /\ ReturnsFailure(t, "claim_file")
                => pc[t] # "claim_publish" /\ lock' = lock
          /\ ReturnsFailure(t, "release_file")
                => pc[t] # "release_publish" /\ lock' = lock]_vars

(***************************************************************************)
(* Results of file_write when it fails (SpecWriteFault).                   *)
(***************************************************************************)
\* C35: a file_write that returns success=false has changed neither a file
\* nor the set of the files of its task, and has published nothing on
\* file:updates: the step that returns changes none of the three, and the
\* call has not written before (it is at "write_publish" exactly when it has
\* written the file and added the path to the set).
C35_FailedWriteChangesNothing ==
    [][\A t \in Tasks :
          ReturnsFailure(t, "file_write")
             => /\ fileContent' = fileContent
                /\ taskFiles' = taskFiles
                /\ fileUpdates' = fileUpdates
                /\ pc[t] # "write_publish"]_vars

(***************************************************************************)
(* Properties of the lock channel (SpecClaimRelease).                      *)
(***************************************************************************)
\* a call of claim_file or release_file on path p is in flight
LockCallInFlight(p) ==
    \E t \in Tasks : pc[t] # "idle" /\ arg[t].path = p

\* C36: with no lock expiring, the messages on the channel locks:<p> are
\* acquired, released, acquired, ... from the first on, each released message
\* naming the task of the acquired message before it; and when no call on p
\* is in flight the last message tells the state of the lock: p is locked by
\* t exactly when the last message is "acquired by t".
C36_LockEventsAlternate ==
    \A p \in Paths :
        LET events == lockEvents[p]
            n == Len(events)
        IN  /\ \A i \in 1..n : events[i].locked <=> (i % 2 = 1)
            /\ \A i \in 1..n : ~events[i].locked => events[i].by = events[i - 1].by
            /\ ~LockCallInFlight(p)
                  => IF lock[p] = None
                     THEN n = 0 \/ ~events[n].locked
                     ELSE n > 0 /\ events[n] = [locked |-> TRUE, by |-> lock[p]]

(***************************************************************************)
(* Re-entrant claims (SpecLock).                                           *)
(***************************************************************************)
\* C37: while task A holds the lock on p, each store call of a claim_file(A, p)
\* by A itself leaves the key with A and its expiry as it is, publishes
\* nothing, and the call returns success=false, locked=false and the error
\* "File locked by task A".
C37_OwnLockNotReclaimed ==
    [][\A A \in Tasks :
          LET p == arg[A].path IN
          /\ (Leaves(A, "claim_set") /\ lock[p] = A)
                => /\ pc'[A] = "claim_get"
                   /\ lock'[p] = A
                   /\ lockTTL'[p] = lockTTL[p]
                   /\ lockEvents' = lockEvents
          /\ (Leaves(A, "claim_get") /\ lock[p] = A)
                => /\ pc'[A] = "idle"
                   /\ res'[A] = ClaimFailed(p, A)
                   /\ lock'[p] = A
                   /\ lockTTL'[p] = lockTTL[p]
                   /\ lockEvents' = lockEvents]_vars

\* A's second claim has failed naming A itself, who holds the lock of its
\* first claim, its one message on the channel
C37_Witness ==
    \E p \in Paths : \E A \in Tasks :
        /\ res[A] = ClaimFailed(p, A)
        /\ lock[p] = A
        /\ held[A][p] > 0
        /\ lockEvents[p] = << [locked |-> TRUE, by |-> A] >>

(***************************************************************************)
(* The watermark and the rows of a failed iteration (SpecPullFault).       *)
(***************************************************************************)
\* C38: the watermark changes only in the step that writes the last row of
\* the iteration, every row fetched being in the cache then; an iteration
\* that a failing cache write ends leaves the watermark as it was; and the
\* rows of such an iteration stay above the watermark until a fetch returns
\* them again (a row at or below the watermark is fetched by no iteration).
C38_FailedBatchFetchedAgain ==
    /\ [][/\ last_sync_timestamp' # last_sync_timestamp
                => /\ pullPc = "set_task" /\ rowIdx + 1 = Len(rows)
                   /\ \A i \in 1..Len(rows) : cacheTasks'[rows[i].id] = TaskData(rows[i])
          /\ PullSetTaskFails => last_sync_timestamp' = last_sync_timestamp]_vars
    /\ [](\A id \in abandoned : dbTasks[id].updated_at > last_sync_timestamp)

(***************************************************************************)
(* Versions of a cached task (SpecReplicateFault).                         *)
(***************************************************************************)
\* datetime.fromisoformat: the timestamp of an ISO-8601 string
fromisoformat(string) == string[2]

\* C39: a write of the pull loop over a cached task never lowers the
\* updated_at of the cached copy.
C39_CachedVersionNeverOlder ==
    [][\A id \in TaskIds :
          (cacheTasks[id] # NoTask /\ cacheTasks'[id] # cacheTasks[id])
             => fromisoformat(cacheTasks'[id].updated_at)
                    >= fromisoformat(cacheTasks[id].updated_at)]_vars

(***************************************************************************)
(* Each write is taken and executed once (SpecPushFault).                  *)
(***************************************************************************)
\* the ids of the entries in the write queue
QueueIds == {write_queue[i].id : i \in 1..Len(write_queue)}

\* C40: no id is passed to conn.execute twice; no entry is twice in the
\* queue and the batch in progress; and an entry that has left the queue
\* never is in it again: the only entry that enters the queue in a step is
\* the one just enqueued.  This with batches lost when pool.acquire raises.
C40_WriteExecutedAtMostOnce ==
    /\ [](/\ \A i, j \in 1..Len(executed) : i # j => executed[i] # executed[j]
          /\ LET pending == batch \o write_queue
             IN  \A i, j \in 1..Len(pending) : i < j => pending[i].id < pending[j].id)
    /\ [][/\ QueueIds' \ QueueIds \subseteq {Len(queued) + 1}
          /\ Len(executed') > Len(executed)
                => /\ executed'[Len(executed')] \notin QueueIds'
                   /\ \E i \in 1..Len(batch) :
                         batch[i].id = executed'[Len(executed')]]_vars

\* pool.acquire has failed for the batch of the first entry, which was never
\* executed and is in the queue no more; the loop has gone on and executed
\* the entries of a later batch, each one once
C40_Witness ==
    /\ pushPc = "sleep"
    /\ Len(queued) = MaxWrites
    /\ write_queue = <<>>
    /\ executed # <<>>
    /\ \A i \in 1..Len(executed) : executed[i] > 1

====
